---- MODULE Spec2Model ----
(***************************************************************************)
(* shadowpay-demo: the compliance gateway (RangeClient / MockRangeClient), *)
(* the proof service (NoirProofService) and the orchestrating              *)
(* ComplianceService, modelled as a state machine.                         *)
(*                                                                         *)
(* One ComplianceService instance is modelled.  Its operations are async   *)
(* functions; every await on an external collaborator (risk provider,      *)
(* transfer network) is a step of its own, so the provider may answer      *)
(* differently, or fail, at each query.                                    *)
(***************************************************************************)
EXTENDS Integers, Sequences, FiniteSets, TLC

VARIABLES
    config,           \* ComplianceServiceConfig given to the constructor
    mockResponses,    \* MockRangeClient.mockResponses (address -> response)
    noirInitialized,  \* module-level flag of noir-proof-service.ts
    op,               \* the operation in flight: its kind, position and locals
    checks,           \* the checkCompliance calls in flight (one per index)
    outcome,          \* what the last finished operation returned or threw
    now,              \* the clock Date.now() reads, in minutes
    scheduledWithdrawals, \* page.tsx: the scheduledWithdrawals state
    circuitCache,     \* NoirProofService.circuitCache (circuit type -> artifact)
    backendCache      \* NoirProofService.backendCache (circuit type -> backend)

vars == <<config, mockResponses, noirInitialized, op, checks, outcome,
          now, scheduledWithdrawals, circuitCache, backendCache>>

\* the caches of the NoirProofService instance
noirCaches == <<circuitCache, backendCache>>

\* the state of the page component and the clock it reads
pageState == <<now, scheduledWithdrawals>>

-----------------------------------------------------------------------------
(* Optional values: undefined is the empty tuple, a value v is <<v>>.      *)

Undef == <<>>
Some(v) == <<v>>
IsDef(x) == x # Undef
Val(x) == x[1]

\* a ?? b
Nullish(x, d) == IF x = Undef THEN d ELSE x[1]

-----------------------------------------------------------------------------
(* Strings whose content the code inspects are tuples of characters.       *)

ToLowerChar(c) ==
    CASE c = "O" -> "o" [] c = "F" -> "f" [] c = "A" -> "a" [] c = "C" -> "c"
      [] c = "S" -> "s" [] c = "N" -> "n" [] c = "T" -> "t" [] c = "I" -> "i"
      [] OTHER -> c

\* String.prototype.toLowerCase
ToLowerCase(s) == [i \in 1..Len(s) |-> ToLowerChar(s[i])]

\* String.prototype.includes
Includes(s, sub) ==
    \E i \in 0..(Len(s) - Len(sub)) : SubSeq(s, i + 1, i + Len(sub)) = sub

RECURSIVE DigitsOf(_)
DigitsOf(n) ==
    LET d == <<"0", "1", "2", "3", "4", "5", "6", "7", "8", "9">>[(n % 10) + 1]
    IN  IF n < 10 THEN <<d>> ELSE Append(DigitsOf(n \div 10), d)

\* String(n) for an integer n
\* A JavaScript number is an integer here, or NaN: a reserved value outside
\* every range used, for which every comparison is false (the result of
\* comparing a number with a value that is not numeric).
NaN == 0 - 1000000
JsLt(a, b) == a # NaN /\ b # NaN /\ a < b
JsGt(a, b) == a # NaN /\ b # NaN /\ a > b

NumToString(n) ==
    IF n = NaN THEN <<"N", "a", "N">>
    ELSE IF n < 0 THEN <<"-">> \o DigitsOf(0 - n) ELSE DigitsOf(n)

-----------------------------------------------------------------------------
(* range-client: constants.                                                *)

DEFAULT_MAX_RISK_THRESHOLD == 5
BATCH_CONCURRENCY == 5

SANCTION_CATEGORIES ==
    << <<"o", "f", "a", "c">>,
       <<"s", "a", "n", "c", "t", "i", "o", "n", "s">>,
       <<"b", "l", "a", "c", "k", "l", "i", "s", "t">>,
       <<"h", "a", "c", "k", "_", "f", "u", "n", "d", "s">> >>

(* compliance-service: constants.                                          *)
DEFAULT_MINIMUM_AGE == 18
DEFAULT_MAX_RISK == 5
DEFAULT_MIN_BALANCE == 0

-----------------------------------------------------------------------------
(* The risk provider (external).  A RiskScoreResponse is a record; an      *)
(* evidence entry's category is optional (the code reads m.category?.).    *)

Evidence(d, cat) == [distance |-> d, category |-> cat]

CatOfacSanctions ==
    <<"o", "f", "a", "c", "_", "s", "a", "n", "c", "t", "i", "o", "n", "s">>
CatOFAC == <<"O", "F", "A", "C">>
CatMixer == <<"m", "i", "x", "e", "r">>
CatScam == <<"s", "c", "a", "m">>
CatHack == <<"h", "a", "c", "k">>

Response(score, level, hops, found, why) ==
    [riskScore |-> score, riskLevel |-> level, numHops |-> hops,
     maliciousAddressesFound |-> found, reasoning |-> why]

\* MockRangeClient.getAddressRiskScore's answer for an address never mocked
RespDefault ==
    Response(1, "Very low risk", 5, <<>>,
             "No suspicious paths found within 5 hops.")
\* sanction evidence, but only at distance > 0
RespNear ==
    Response(3, "Low risk", 1, <<Evidence(1, Some(CatOfacSanctions))>>,
             "1 hop from sanctioned address.")
RespMixer ==
    Response(8, "Extremely high risk", 1, <<Evidence(1, Some(CatMixer))>>,
             "1 hop from malicious address.")
\* direct sanction evidence (upper case category), moderate score
RespSanctioned ==
    Response(4, "Medium risk", 0,
             <<Evidence(0, Some(CatHack)), Evidence(0, Some(CatOFAC))>>,
             "Address is directly flagged for sanctions.")
\* score 10, direct evidence of a category that is no sanction keyword
RespCritical ==
    Response(10, "CRITICAL RISK (Directly malicious)", 0,
             <<Evidence(0, Some(CatScam)), Evidence(0, Undef)>>,
             "Address is directly flagged for malicious activity.")

Responses == {RespDefault, RespNear, RespMixer, RespSanctioned, RespCritical}

(* Addresses.  What the provider may answer for an address is part of the  *)
(* environment: for WalletW any response, at any query; WalletA and        *)
(* WalletB have a settled history, WalletC's changes between queries.      *)
WalletW == "WalletW"
WalletA == "WalletA"
WalletB == "WalletB"
WalletC == "WalletC"
Addresses == {WalletW, WalletA, WalletB, WalletC}

ProviderResponses(address) ==
    CASE address = WalletW -> Responses
      [] address = WalletA -> {RespDefault}
      [] address = WalletB -> {RespMixer}
      [] OTHER -> {RespNear, RespCritical}

-----------------------------------------------------------------------------
(* RangeClient / MockRangeClient.                                          *)

\* ComplianceService constructor: which client, and RangeClient constructor:
\* this.maxRiskThreshold.  MockRangeClient passes no threshold to super().
RangeMaxRiskThreshold ==
    IF config.useMockRange
    THEN DEFAULT_MAX_RISK_THRESHOLD
    ELSE Nullish(config.maxRiskThreshold, DEFAULT_MAX_RISK_THRESHOLD)

\* getAddressRiskScore: the results one call can have.  Undef is a thrown
\* error (axios rejects); the mock client never throws.
GetAddressRiskScore(address) ==
    IF config.useMockRange
    THEN {Some(Nullish(mockResponses[address], RespDefault))}
    ELSE {Some(r) : r \in ProviderResponses(address)} \cup {Undef}

\* the predicate of checkSanctions, on the response it fetched
EvidenceIsSanction(m) ==
    /\ m.distance = 0
    /\ \E k \in 1..Len(SANCTION_CATEGORIES) :
          /\ IsDef(m.category)
          /\ Includes(ToLowerCase(Val(m.category)), SANCTION_CATEGORIES[k])

CheckSanctions(riskData) ==
    \/ \E j \in 1..Len(riskData.maliciousAddressesFound) :
          EvidenceIsSanction(riskData.maliciousAddressesFound[j])
    \/ riskData.riskScore = 10

\* the record checkCompliance returns; subject is the address argument of
\* the call (not a field of the code's record: it names the call).
ComplianceCheckResult(address, riskData, isSanctioned) ==
    [isCompliant  |-> riskData.riskScore <= RangeMaxRiskThreshold
                      /\ ~isSanctioned,
     riskScore    |-> riskData.riskScore,
     riskLevel    |-> riskData.riskLevel,
     isSanctioned |-> isSanctioned,
     reasoning    |-> riskData.reasoning,
     rawResponse  |-> riskData,
     subject      |-> address]

\* a checkCompliance call that has just been made; overtook records, for the
\* claims, that the call finished while a call made before it was pending
NewCheck(address) ==
    [address |-> address, stage |-> "riskData", riskData |-> Undef,
     result |-> Undef, overtook |-> FALSE]

\* checkCompliance, first await: riskData = await getAddressRiskScore(address)
CheckCompliance_RiskData(i) ==
    /\ i \in 1..Len(checks)
    /\ checks[i].stage = "riskData"
    /\ \E res \in GetAddressRiskScore(checks[i].address) :
          checks' = [checks EXCEPT ![i] =
                        IF res = Undef
                        THEN [@ EXCEPT !.stage = "failed"]
                        ELSE [@ EXCEPT !.stage = "sanctions",
                                       !.riskData = res]]
    /\ UNCHANGED <<pageState, noirCaches, config, mockResponses, noirInitialized, op, outcome>>

\* checkCompliance, second await: isSanctioned = await checkSanctions(address),
\* which queries the provider again; then the result is built.
CheckCompliance_Sanctions(i) ==
    /\ i \in 1..Len(checks)
    /\ checks[i].stage = "sanctions"
    /\ \E res \in GetAddressRiskScore(checks[i].address) :
          checks' = [checks EXCEPT ![i] =
                        IF res = Undef
                        THEN [@ EXCEPT !.stage = "failed"]
                        ELSE [@ EXCEPT !.stage = "done",
                                       !.overtook = \E j \in 1..(i - 1) :
                                           checks[j].stage # "done",
                                       !.result = Some(ComplianceCheckResult(
                                           checks[i].address,
                                           Val(checks[i].riskData),
                                           CheckSanctions(Val(res))))]]
    /\ UNCHANGED <<pageState, noirCaches, config, mockResponses, noirInitialized, op, outcome>>

-----------------------------------------------------------------------------
(* NoirProofService.                                                       *)

CircuitTypes == {"age_verification", "risk_threshold", "selective_disclosure"}

\* new Map(): no artifact and no backend for any circuit type.  writes and
\* constructed count the calls of Map.set and of new UltraHonkBackend.
NoCircuits == [c \in CircuitTypes |-> [artifact |-> Undef, writes |-> 0]]
NoBackends == [c \in CircuitTypes |-> [backend |-> Undef, constructed |-> 0]]

\* createNoirProofService() passes no config: useRealProofs ?? true
NoirUseRealProofs == TRUE

\* validateAgeInput: Undef when it returns, the message when it throws
ValidateAgeInput(input) ==
    IF JsLt(input.age, 0) \/ JsGt(input.age, 255)
    THEN Some("Invalid age: must be between 0 and 255 (u8)")
    ELSE IF JsLt(input.minimumAge, 0) \/ JsGt(input.minimumAge, 255)
    THEN Some("Invalid minimum age: must be between 0 and 255 (u8)")
    ELSE IF JsLt(input.age, input.minimumAge)
    THEN Some("Age verification will fail: age is below minimum")
    ELSE Undef

ValidateRiskInput(input) ==
    IF JsLt(input.riskScore, 1) \/ JsGt(input.riskScore, 10)
    THEN Some("Invalid risk score: must be between 1 and 10")
    ELSE IF JsLt(input.maxAllowedRisk, 1) \/ JsGt(input.maxAllowedRisk, 10)
    THEN Some("Invalid max risk: must be between 1 and 10")
    ELSE IF JsGt(input.riskScore, input.maxAllowedRisk)
    THEN Some("Risk verification will fail: risk exceeds threshold")
    ELSE Undef

ValidateSelectiveDisclosureInput(input) ==
    LET a == ValidateAgeInput([age |-> input.age,
                               minimumAge |-> input.minimumAge])
        r == ValidateRiskInput([riskScore |-> input.riskScore,
                                maxAllowedRisk |-> input.maxRiskScore])
    IN  IF IsDef(a) THEN a
        ELSE IF IsDef(r) THEN r
        ELSE IF input.isSanctioned
        THEN Some("Selective disclosure will fail: address is sanctioned")
        ELSE IF JsLt(input.walletBalanceUsd, input.minBalanceUsd)
        THEN Some("Selective disclosure will fail: balance below minimum")
        ELSE Undef

ExtractPublicInputs(circuitType, witness) ==
    CASE circuitType = "age_verification" ->
            <<NumToString(witness.minimum_age)>>
      [] circuitType = "risk_threshold" ->
            <<NumToString(witness.max_allowed_risk)>>
      [] circuitType = "selective_disclosure" ->
            <<NumToString(witness.minimum_age),
              NumToString(witness.max_risk_score),
              NumToString(witness.min_balance_usd)>>
      [] OTHER -> <<>>

\* (variant for C5: the payload is encoded from a field that is not there)
CreateMockProofEmpty(circuitType, witness) ==
    [proof        |-> <<>>,
     publicInputs |-> ExtractPublicInputs(circuitType, witness),
     isRealProof  |-> FALSE]

\* createMockProof: the payload is the UTF-8 text of a JSON object (its
\* tokens here; the timestamp and the hash are left out), never empty.
CreateMockProof(circuitType, witness) ==
    [proof        |-> <<"{", "circuitType", circuitType, "mockProof", "}">>,
     publicInputs |-> ExtractPublicInputs(circuitType, witness),
     isRealProof  |-> FALSE]

\* what the proving backend (external) may hand back as a proof's public
\* inputs: nothing, so that the service extracts them, or its own encoding
BackendPublicInputs(circuitType, witness) ==
    {ExtractPublicInputs(circuitType, witness),
     [k \in 1..Len(ExtractPublicInputs(circuitType, witness)) |->
         <<"0", "x">> \o ExtractPublicInputs(circuitType, witness)[k]]}

\* generateRealProof with loadCircuit: the results one call can have.  Undef
\* is a thrown error (circuit not available, witness execution, backend
\* construction or proving failed).  The circuit and backend caches are not
\* tracked here: whether loadCircuit hits the cache is one of the
\* alternatives.
GenerateRealProof(circuitType, witness) ==
    {Undef}
    \cup {Some([proof |-> <<"bb", circuitType>>, publicInputs |-> pi,
                isRealProof |-> TRUE])
             : pi \in BackendPublicInputs(circuitType, witness)}

\* (variant for C12: an error of the real backend is thrown on)
GenerateProofRethrows(circuitType, witness) ==
    IF NoirUseRealProofs /\ noirInitialized
    THEN GenerateRealProof(circuitType, witness)
    ELSE {Some(CreateMockProof(circuitType, witness))}

\* generateProof: the results one call can have, Some(proof) when it returns
\* and Undef when it throws.  The real backend is tried only when the
\* libraries are initialized; any error it throws is caught and the mock
\* proof is returned instead.
GenerateProof(circuitType, witness) ==
    IF NoirUseRealProofs /\ noirInitialized
    THEN {IF IsDef(r) THEN r ELSE Some(CreateMockProof(circuitType, witness))
            : r \in GenerateRealProof(circuitType, witness)}
    ELSE {Some(CreateMockProof(circuitType, witness))}

\* (variant for C13: the catch block applies the structural check as well)
VerifyProofStructuralFallback(circuitType, proof) ==
    LET out(v, e, path) == [isValid |-> v, error |-> e, path |-> path]
        structural == Len(proof.proof) > 0
    IN  IF ~proof.isRealProof
        THEN {out(structural, Undef, "mock")}
        ELSE {out(structural, Undef, "unavailable")}
             \cup
             (IF ~noirInitialized THEN {}
              ELSE {out(structural, Undef, "threw")}
                   \cup {out(v, Undef, "backend") : v \in BOOLEAN})

\* verifyProof: the results one call can have.  path names the branch taken:
\* "mock" (placeholder: payload non-empty), "unavailable" (no circuit or no
\* backend class: payload non-empty), "threw" (the catch block), "backend"
\* (the backend verifier's answer).
VerifyProof(circuitType, proof) ==
    LET out(v, e, path) == [isValid |-> v, error |-> e, path |-> path]
        structural == Len(proof.proof) > 0
    IN  IF ~proof.isRealProof
        THEN {out(structural, Undef, "mock")}
        ELSE {out(structural, Undef, "unavailable")}
             \cup
             (IF ~noirInitialized THEN {}
              ELSE {out(FALSE, Some("Verification failed"), "threw")}
                   \cup {out(v, Undef, "backend") : v \in BOOLEAN})

\* initialize() on any NoirProofService with useRealProofs: initNoirLibs sets
\* the module flag when running in a browser and both imports succeed.
Initialize ==
    /\ ~noirInitialized
    /\ noirInitialized' = TRUE
    /\ UNCHANGED <<pageState, noirCaches, config, mockResponses, op, checks, outcome>>

-----------------------------------------------------------------------------
(* ComplianceService: the configurations and requests considered.          *)

Config(mock, threshold, minAge, minBalance) ==
    [useMockRange |-> mock, maxRiskThreshold |-> threshold,
     defaultMinimumAge |-> minAge, defaultMinBalanceUsd |-> minBalance]

Configs ==
    {Config(TRUE, Some(5), Some(18), Some(1000)),   \* the test suite's
     Config(FALSE, Undef, Undef, Undef),            \* all defaults
     Config(FALSE, Some(10), Some(18), Some(0)),    \* most permissive gateway
     Config(TRUE, Some(10), Undef, Undef)}

AttestationRequests ==
    [walletAddress    : {WalletW},
     age              : {16, 25, 256},
     minimumAge       : {Undef, Some(21)},
     maxRiskScore     : {Undef, Some(3)},
     minBalanceUsd    : {Undef},
     walletBalanceUsd : {Undef, Some(5000)}]

Idle == [kind |-> "idle"]
NoOutcome == [kind |-> "none"]

Returned(kind, value, note) ==
    [kind |-> kind, status |-> "returned", value |-> value, note |-> note]
Threw(kind, error, note) ==
    [kind |-> kind, status |-> "threw", error |-> error, note |-> note]

-----------------------------------------------------------------------------
(* ComplianceService.generateAttestation.                                  *)

\* (variant for C7: proofs are reported only for a compliant attestation)
AttestationResultProofsIfCompliant(o, isCompliant, ageProof, riskProof, sdProof) ==
    [isCompliant     |-> isCompliant,
     attestationId   |-> "att_",
     proofs          |-> IF isCompliant
                         THEN [age |-> ageProof, risk |-> riskProof,
                               selectiveDisclosure |-> sdProof]
                         ELSE [age |-> Undef, risk |-> Undef,
                               selectiveDisclosure |-> Undef],
     complianceCheck |-> Val(o.complianceCheck),
     publicInputs    |-> [minimumAge |-> o.minimumAge,
                          maxRiskScore |-> o.maxRiskScore,
                          minBalanceUsd |-> o.minBalanceUsd]]

\* (variant for C28: only the proof obtained last is reported)
AttestationResultLastProof(o, isCompliant, ageProof, riskProof, sdProof) ==
    [isCompliant     |-> isCompliant,
     attestationId   |-> "att_",
     proofs          |-> [age |-> IF IsDef(riskProof) THEN Undef ELSE ageProof,
                          risk |-> riskProof,
                          selectiveDisclosure |-> sdProof],
     complianceCheck |-> Val(o.complianceCheck),
     publicInputs    |-> [minimumAge |-> o.minimumAge,
                          maxRiskScore |-> o.maxRiskScore,
                          minBalanceUsd |-> o.minBalanceUsd]]

\* the object the function returns, from its locals
AttestationResult(o, isCompliant, ageProof, riskProof, sdProof) ==
    [isCompliant     |-> isCompliant,
     attestationId   |-> "att_",
     proofs          |-> [age |-> ageProof, risk |-> riskProof,
                          selectiveDisclosure |-> sdProof],
     complianceCheck |-> Val(o.complianceCheck),
     publicInputs    |-> [minimumAge |-> o.minimumAge,
                          maxRiskScore |-> o.maxRiskScore,
                          minBalanceUsd |-> o.minBalanceUsd]]

\* the defaults are resolved, then checkCompliance(request.walletAddress) is
\* awaited
GenerateAttestation_Begin(request) ==
    /\ op.kind = "idle"
    /\ op' = [kind             |-> "generateAttestation",
              pc               |-> "checkCompliance",
              request          |-> request,
              minimumAge       |-> Nullish(request.minimumAge,
                                      Nullish(config.defaultMinimumAge,
                                              DEFAULT_MINIMUM_AGE)),
              maxRiskScore     |-> Nullish(request.maxRiskScore,
                                      Nullish(config.maxRiskThreshold,
                                              DEFAULT_MAX_RISK)),
              minBalanceUsd    |-> Nullish(request.minBalanceUsd,
                                      Nullish(config.defaultMinBalanceUsd,
                                              DEFAULT_MIN_BALANCE)),
              walletBalanceUsd |-> Nullish(request.walletBalanceUsd, 0),
              complianceCheck  |-> Undef,
              ageProof         |-> Undef,
              riskProof        |-> Undef]
    /\ checks' = <<NewCheck(request.walletAddress)>>
    /\ outcome' = NoOutcome
    /\ UNCHANGED <<pageState, noirCaches, config, mockResponses, noirInitialized>>

\* (variant for C4: a rejected check is replaced by a default verdict)
GenerateAttestation_CheckFailedDefaults ==
    /\ op.kind = "generateAttestation" /\ op.pc = "checkCompliance"
    /\ checks[1].stage = "failed"
    /\ op' = [op EXCEPT !.pc = "ageProof",
                        !.complianceCheck = Some(ComplianceCheckResult(
                            checks[1].address, RespDefault, FALSE))]
    /\ checks' = <<>>
    /\ UNCHANGED <<pageState, noirCaches, config, mockResponses, noirInitialized, outcome>>

\* checkCompliance rejected: the await is outside the try block, so
\* generateAttestation rejects too
GenerateAttestation_CheckFailed ==
    /\ op.kind = "generateAttestation" /\ op.pc = "checkCompliance"
    /\ checks[1].stage = "failed"
    /\ outcome' = Threw("generateAttestation", "provider", [requested |-> <<>>])
    /\ op' = Idle
    /\ checks' = <<>>
    /\ UNCHANGED <<pageState, noirCaches, config, mockResponses, noirInitialized>>

\* (variant for C23: the risk proof is requested first)
GenerateAttestation_CheckedRiskFirst ==
    /\ op.kind = "generateAttestation" /\ op.pc = "checkCompliance"
    /\ checks[1].stage = "done"
    /\ op' = [op EXCEPT !.pc = "riskProof",
                        !.complianceCheck = checks[1].result]
    /\ checks' = <<>>
    /\ UNCHANGED <<pageState, noirCaches, config, mockResponses, noirInitialized, outcome>>

GenerateAttestation_Checked ==
    /\ op.kind = "generateAttestation" /\ op.pc = "checkCompliance"
    /\ checks[1].stage = "done"
    /\ op' = [op EXCEPT !.pc = "ageProof",
                        !.complianceCheck = checks[1].result]
    /\ checks' = <<>>
    /\ UNCHANGED <<pageState, noirCaches, config, mockResponses, noirInitialized, outcome>>

\* (variant for C1: the verdict is taken from having obtained some proof)
GenerateAttestation_CaughtAnyProof(failedStep, ageProof, riskProof, requested) ==
    /\ outcome' = Returned("generateAttestation",
                           AttestationResult(op, IsDef(ageProof), ageProof,
                                             riskProof, Undef),
                           [failedStep |-> failedStep,
                            requested |-> requested,
                            age |-> op.request.age,
                            walletBalanceUsd |-> op.walletBalanceUsd])
    /\ op' = Idle

\* the catch block and the return: the attestation with the proofs obtained
\* so far.  failedStep and requested record what happened, for the claims.
GenerateAttestation_Caught(failedStep, ageProof, riskProof, requested) ==
    /\ outcome' = Returned("generateAttestation",
                           AttestationResult(op, FALSE, ageProof, riskProof,
                                             Undef),
                           [failedStep |-> failedStep,
                            requested |-> requested,
                            age |-> op.request.age,
                            walletBalanceUsd |-> op.walletBalanceUsd])
    /\ op' = Idle

\* ageProof = await noirService.generateAgeProof({age, minimumAge})
GenerateAttestation_AgeProof ==
    /\ op.kind = "generateAttestation" /\ op.pc = "ageProof"
    /\ LET input == [age |-> op.request.age, minimumAge |-> op.minimumAge]
           witness == [age |-> input.age, minimum_age |-> input.minimumAge]
       IN  IF IsDef(ValidateAgeInput(input))
           THEN GenerateAttestation_Caught("age", Undef, Undef, <<"age">>)
           ELSE \E g \in GenerateProof("age_verification", witness) :
                   IF ~IsDef(g)
                   THEN GenerateAttestation_Caught("age", Undef, Undef,
                                                   <<"age">>)
                   ELSE /\ op' = [op EXCEPT !.pc = "riskProof",
                                            !.ageProof = g]
                        /\ UNCHANGED outcome
    /\ UNCHANGED <<pageState, noirCaches, config, mockResponses, noirInitialized, checks>>

\* riskProof = await noirService.generateRiskProof({riskScore, maxAllowedRisk})
GenerateAttestation_RiskProof ==
    /\ op.kind = "generateAttestation" /\ op.pc = "riskProof"
    /\ LET input == [riskScore |-> Val(op.complianceCheck).riskScore,
                     maxAllowedRisk |-> op.maxRiskScore]
           witness == [risk_score |-> input.riskScore,
                       max_allowed_risk |-> input.maxAllowedRisk]
       IN  IF IsDef(ValidateRiskInput(input))
           THEN GenerateAttestation_Caught("risk", op.ageProof, Undef,
                                           <<"age", "risk">>)
           ELSE \E g \in GenerateProof("risk_threshold", witness) :
                   IF ~IsDef(g)
                   THEN GenerateAttestation_Caught("risk", op.ageProof, Undef,
                                                   <<"age", "risk">>)
                   ELSE /\ op' = [op EXCEPT
                                     !.pc = "selectiveDisclosureProof",
                                     !.riskProof = g]
                        /\ UNCHANGED outcome
    /\ UNCHANGED <<pageState, noirCaches, config, mockResponses, noirInitialized, checks>>

\* selectiveDisclosureProof = await noirService
\* .generateSelectiveDisclosureProof({...}); isCompliant = true; return
GenerateAttestation_SelectiveDisclosureProof ==
    /\ op.kind = "generateAttestation" /\ op.pc = "selectiveDisclosureProof"
    /\ LET input == [age              |-> op.request.age,
                     riskScore        |-> Val(op.complianceCheck).riskScore,
                     isSanctioned     |-> Val(op.complianceCheck).isSanctioned,
                     walletBalanceUsd |-> op.walletBalanceUsd,
                     minimumAge       |-> op.minimumAge,
                     maxRiskScore     |-> op.maxRiskScore,
                     minBalanceUsd    |-> op.minBalanceUsd]
           witness == [age |-> input.age, risk_score |-> input.riskScore,
                       is_sanctioned |-> input.isSanctioned,
                       wallet_balance_usd |-> input.walletBalanceUsd,
                       minimum_age |-> input.minimumAge,
                       max_risk_score |-> input.maxRiskScore,
                       min_balance_usd |-> input.minBalanceUsd]
           all == <<"age", "risk", "selectiveDisclosure">>
       IN  IF IsDef(ValidateSelectiveDisclosureInput(input))
           THEN GenerateAttestation_Caught("selectiveDisclosure", op.ageProof,
                                           op.riskProof, all)
           ELSE \E g \in GenerateProof("selective_disclosure", witness) :
                   IF ~IsDef(g)
                   THEN GenerateAttestation_Caught("selectiveDisclosure",
                                                   op.ageProof, op.riskProof,
                                                   all)
                   ELSE /\ outcome' = Returned("generateAttestation",
                                    AttestationResult(op, TRUE, op.ageProof,
                                        op.riskProof, g),
                                    [failedStep |-> "none", requested |-> all,
                                     age |-> op.request.age,
                                     walletBalanceUsd |-> op.walletBalanceUsd])
                        /\ op' = Idle
    /\ UNCHANGED <<pageState, noirCaches, config, mockResponses, noirInitialized, checks>>

-----------------------------------------------------------------------------
(* ComplianceService.executePrivateTransfer.                               *)

TransferRequests ==
    [senderAddress     : {WalletA},
     recipientAddress  : {WalletW, WalletB},
     amount            : {1},
     token             : {"SOL"},
     requireCompliance : {Undef, Some(TRUE), Some(FALSE)}]

\* the call starts; with requireCompliance !== false the recipient's
\* checkCompliance is awaited first
ExecutePrivateTransfer_Begin(request) ==
    /\ op.kind = "idle"
    /\ LET screen == request.requireCompliance # Some(FALSE)
       IN  /\ op' = [kind      |-> "executePrivateTransfer",
                     pc        |-> IF screen THEN "checkCompliance"
                                   ELSE "transfer",
                     request   |-> request,
                     recipientCompliance |-> Undef,
                     screened  |-> {},
                     submitted |-> <<>>]
           /\ checks' = IF screen THEN <<NewCheck(request.recipientAddress)>>
                        ELSE <<>>
    /\ outcome' = NoOutcome
    /\ UNCHANGED <<pageState, noirCaches, config, mockResponses, noirInitialized>>

\* checkCompliance rejected: nothing catches it
ExecutePrivateTransfer_CheckFailed ==
    /\ op.kind = "executePrivateTransfer" /\ op.pc = "checkCompliance"
    /\ checks[1].stage = "failed"
    /\ outcome' = Threw("executePrivateTransfer", "provider",
                        [request |-> op.request, screened |-> op.screened,
                         submitted |-> op.submitted])
    /\ op' = Idle
    /\ checks' = <<>>
    /\ UNCHANGED <<pageState, noirCaches, config, mockResponses, noirInitialized>>

\* the result of the early return for a non-compliant recipient
RecipientFailed(recipientCompliance) ==
    [success |-> FALSE,
     transferResult |-> Undef,
     recipientCompliance |-> Some(recipientCompliance),
     error |-> Some(<<"Recipient failed compliance: ",
                      recipientCompliance.reasoning>>)]

\* (variant for C2: only the sanction flag of the verdict is looked at)
RecipientPassesUnlessSanctioned(recipientCompliance) ==
    ~recipientCompliance.isSanctioned

\* whether the recipient's verdict lets the transfer go ahead
RecipientPasses(recipientCompliance) == recipientCompliance.isCompliant

ExecutePrivateTransfer_Checked ==
    /\ op.kind = "executePrivateTransfer" /\ op.pc = "checkCompliance"
    /\ checks[1].stage = "done"
    /\ LET rc == Val(checks[1].result)
           seen == op.screened \cup {checks[1].address}
       IN  IF ~RecipientPasses(rc)
           THEN /\ outcome' = Returned("executePrivateTransfer",
                                  RecipientFailed(rc),
                                  [request |-> op.request, screened |-> seen,
                                   verdict |-> Some(rc),
                                   submitted |-> op.submitted])
                /\ op' = Idle
           ELSE /\ op' = [op EXCEPT !.pc = "transfer",
                                    !.recipientCompliance = Some(rc),
                                    !.screened = seen]
                /\ UNCHANGED outcome
    /\ checks' = <<>>
    /\ UNCHANGED <<pageState, noirCaches, config, mockResponses, noirInitialized>>

\* shadowWireService.transfer hands the transfer to the network client
ExecutePrivateTransfer_Submit ==
    /\ op.kind = "executePrivateTransfer" /\ op.pc = "transfer"
    /\ op' = [op EXCEPT !.pc = "awaitTransfer",
                        !.submitted = Append(@,
                            [sender    |-> op.request.senderAddress,
                             recipient |-> op.request.recipientAddress,
                             amount    |-> op.request.amount,
                             token     |-> op.request.token,
                             type      |-> "internal"])]
    /\ UNCHANGED <<pageState, noirCaches, config, mockResponses, noirInitialized, checks, outcome>>

\* ShadowWireService.transfer's result: success with the transaction id, or
\* the caught error of the client
TransferResult(delivered) ==
    IF delivered
    THEN [success |-> TRUE, transactionId |-> Some("tx"), error |-> Undef]
    ELSE [success |-> FALSE, transactionId |-> Undef,
          error |-> Some(<<"Transfer failed">>)]

\* the network answers (or its client throws); the call returns
ExecutePrivateTransfer_Done(delivered) ==
    /\ op.kind = "executePrivateTransfer" /\ op.pc = "awaitTransfer"
    /\ LET tr == TransferResult(delivered)
       IN  outcome' = Returned("executePrivateTransfer",
                          [success |-> tr.success,
                           transferResult |-> Some(tr),
                           recipientCompliance |-> Undef,
                           error |-> tr.error],
                          [request |-> op.request, screened |-> op.screened,
                           verdict |-> op.recipientCompliance,
                           submitted |-> op.submitted])
    /\ op' = Idle
    /\ UNCHANGED <<pageState, noirCaches, config, mockResponses, noirInitialized, checks>>

-----------------------------------------------------------------------------
(* ComplianceService.verifyAttestation.                                    *)

\* proofs a caller can put into an attestation it did not get from the
\* service: an empty placeholder, a placeholder with a payload, a payload
\* marked real, an empty payload marked real
ForgedProofs ==
    {[proof |-> <<>>, publicInputs |-> <<>>, isRealProof |-> FALSE],
     [proof |-> <<"x">>, publicInputs |-> <<>>, isRealProof |-> FALSE],
     [proof |-> <<"x">>, publicInputs |-> <<>>, isRealProof |-> TRUE],
     [proof |-> <<>>, publicInputs |-> <<>>, isRealProof |-> TRUE]}

ForgedAttestations ==
    {[isCompliant     |-> c,
      attestationId   |-> "fake",
      proofs          |-> [age |-> a, risk |-> a, selectiveDisclosure |-> sd],
      complianceCheck |-> ComplianceCheckResult(WalletW, RespDefault, FALSE),
      publicInputs    |-> [minimumAge |-> 18, maxRiskScore |-> 5,
                           minBalanceUsd |-> 0]]
       : c \in BOOLEAN,
         a \in {Undef, Some(CreateMockProof("age_verification", [minimum_age |-> 18]))},
         sd \in {Undef} \cup {Some(p) : p \in ForgedProofs}}

\* the attestations verifyAttestation may be given now: the one the service
\* has just returned, or a forged one
VerifiableAttestations ==
    (IF outcome.kind = "generateAttestation" /\ outcome.status = "returned"
     THEN {[attestation |-> outcome.value, generated |-> TRUE]}
     ELSE {})
    \cup {[attestation |-> f, generated |-> FALSE] : f \in ForgedAttestations}

\* (variant for C6: the guard looks for any proof at all)
MissingEveryProof(attestation) ==
    /\ ~IsDef(attestation.proofs.age)
    /\ ~IsDef(attestation.proofs.risk)
    /\ ~IsDef(attestation.proofs.selectiveDisclosure)

\* the guard of verifyAttestation: no selective-disclosure proof, no verifier
MissingSelectiveDisclosure(attestation) ==
    ~IsDef(attestation.proofs.selectiveDisclosure)

\* the call starts; without a selective-disclosure proof it returns false at
\* once, otherwise noirService.verifyProof is awaited
VerifyAttestation_Begin(given) ==
    /\ op.kind = "idle"
    /\ given \in VerifiableAttestations
    /\ IF MissingSelectiveDisclosure(given.attestation)
       THEN /\ outcome' = Returned("verifyAttestation", FALSE,
                              [attestation |-> given.attestation,
                               generated |-> given.generated,
                               verifierCalls |-> 0,
                               verification |-> Undef])
            /\ UNCHANGED op
       ELSE /\ op' = [kind |-> "verifyAttestation", pc |-> "verifyProof",
                      attestation |-> given.attestation,
                      generated |-> given.generated]
            /\ outcome' = NoOutcome
    /\ UNCHANGED <<pageState, noirCaches, config, mockResponses, noirInitialized, checks>>

\* result = await noirService.verifyProof('selective_disclosure', proof);
\* return result.isValid
VerifyAttestation_VerifyProof ==
    /\ op.kind = "verifyAttestation" /\ op.pc = "verifyProof"
    /\ \E v \in VerifyProof("selective_disclosure",
                            Val(op.attestation.proofs.selectiveDisclosure)) :
          /\ outcome' = Returned("verifyAttestation", v.isValid,
                            [attestation |-> op.attestation,
                             generated |-> op.generated,
                             verifierCalls |-> 1,
                             verification |-> Some(v)])
    /\ op' = Idle
    /\ UNCHANGED <<pageState, noirCaches, config, mockResponses, noirInitialized, checks>>

-----------------------------------------------------------------------------
(* MockRangeClient.setMockResponse.                                        *)

SetMockResponse(address, response) ==
    /\ config.useMockRange
    /\ op.kind = "idle"
    /\ mockResponses[address] # Some(response)
    /\ mockResponses' = [mockResponses EXCEPT ![address] = Some(response)]
    /\ UNCHANGED <<pageState, noirCaches, config, noirInitialized, op, checks, outcome>>

-----------------------------------------------------------------------------
(* RangeClient.batchCheckCompliance.                                       *)

MaxBatch == 6

\* the address list WalletA, WalletB, WalletC, WalletA, ... of length n
Rotation(n) == [k \in 1..n |-> <<WalletA, WalletB, WalletC>>[((k - 1) % 3) + 1]]

BatchInputs ==
    {Rotation(n) : n \in 0..MaxBatch}
    \cup {<<WalletC, WalletC>>, <<WalletB, WalletA>>}

\* Array.prototype.slice(from, to)
Slice(seq, from, to) ==
    SubSeq(seq, from + 1, IF to < Len(seq) THEN to ELSE Len(seq))

\* Map.prototype.set
MapSet(map, key, value) ==
    [k \in (DOMAIN map) \cup {key} |-> IF k = key THEN value ELSE map[k]]

\* (variant for C10: the index into the window is used on the whole list)
BatchKeyFromStart(addresses, i, idx) == addresses[idx]

\* the key batch.forEach stores the idx-th result of the window under
\* (idx counts from 1): addr, the idx-th address of the window
BatchKey(addresses, i, idx) == Slice(addresses, i, i + BATCH_CONCURRENCY)[idx]

\* batch.forEach((addr, idx) => results.set(addr, batchResults[idx])), for
\* the first n entries of the window starting at i
RECURSIVE BatchForEach(_, _, _, _, _)
BatchForEach(results, addresses, i, batchResults, n) ==
    IF n = 0 THEN results
    ELSE MapSet(BatchForEach(results, addresses, i, batchResults, n - 1),
                BatchKey(addresses, i, n), batchResults[n])

\* (variant for C11: every remaining address is checked at once)
BatchChecksUnbounded(addresses, i) ==
    [k \in 1..(Len(addresses) - i) |-> NewCheck(addresses[i + k])]

\* batch.map(addr => this.checkCompliance(addr)) for the window starting at i
BatchChecks(addresses, i) ==
    [k \in 1..Len(Slice(addresses, i, i + BATCH_CONCURRENCY)) |->
        NewCheck(Slice(addresses, i, i + BATCH_CONCURRENCY)[k])]

BatchCheckCompliance_Begin(addresses) ==
    /\ op.kind = "idle"
    /\ IF Len(addresses) = 0
       THEN /\ outcome' = Returned("batchCheckCompliance", <<>>,
                              [addresses |-> addresses, overtaken |-> FALSE])
            /\ UNCHANGED <<op, checks>>
       ELSE /\ op' = [kind |-> "batchCheckCompliance", pc |-> "window",
                      addresses |-> addresses, i |-> 0, results |-> <<>>,
                      overtaken |-> FALSE]
            /\ checks' = BatchChecks(addresses, 0)
            /\ outcome' = NoOutcome
    /\ UNCHANGED <<pageState, noirCaches, config, mockResponses, noirInitialized>>

\* Promise.all rejects as soon as one check of the window rejects; the
\* other checks' results are dropped
BatchCheckCompliance_CheckFailed ==
    /\ op.kind = "batchCheckCompliance"
    /\ \E k \in 1..Len(checks) : checks[k].stage = "failed"
    /\ outcome' = Threw("batchCheckCompliance", "provider",
                        [addresses |-> op.addresses])
    /\ op' = Idle
    /\ checks' = <<>>
    /\ UNCHANGED <<pageState, noirCaches, config, mockResponses, noirInitialized>>

\* Promise.all resolves with the window's results in the order of the
\* window; they are stored, and the next window starts or the map is returned
BatchCheckCompliance_WindowDone ==
    /\ op.kind = "batchCheckCompliance"
    /\ \A k \in 1..Len(checks) : checks[k].stage = "done"
    /\ LET batchResults == [k \in 1..Len(checks) |-> Val(checks[k].result)]
           results == BatchForEach(op.results, op.addresses, op.i,
                                   batchResults, Len(checks))
           overtaken == op.overtaken
                        \/ \E k \in 1..Len(checks) : checks[k].overtook
           next == op.i + BATCH_CONCURRENCY
       IN  IF next < Len(op.addresses)
           THEN /\ op' = [op EXCEPT !.i = next, !.results = results,
                                    !.overtaken = overtaken]
                /\ checks' = BatchChecks(op.addresses, next)
                /\ UNCHANGED outcome
           ELSE /\ outcome' = Returned("batchCheckCompliance", results,
                                  [addresses |-> op.addresses,
                                   overtaken |-> overtaken])
                /\ op' = Idle
                /\ checks' = <<>>
    /\ UNCHANGED <<pageState, noirCaches, config, mockResponses, noirInitialized>>

-----------------------------------------------------------------------------
(* The service after construction, and its steps.                          *)

Init ==
    /\ config \in Configs
    /\ mockResponses = [a \in Addresses |-> Undef]
    /\ noirInitialized = FALSE
    /\ op = Idle
    /\ checks = <<>>
    /\ outcome = NoOutcome
    /\ now = 0
    /\ scheduledWithdrawals = <<>>
    /\ circuitCache = NoCircuits
    /\ backendCache = NoBackends

Next ==
    \/ Initialize
    \/ \E a \in {WalletW}, r \in Responses : SetMockResponse(a, r)
    \/ \E i \in 1..BATCH_CONCURRENCY : CheckCompliance_RiskData(i)
    \/ \E i \in 1..BATCH_CONCURRENCY : CheckCompliance_Sanctions(i)
    \/ \E request \in AttestationRequests : GenerateAttestation_Begin(request)
    \/ GenerateAttestation_CheckFailed
    \/ GenerateAttestation_Checked
    \/ GenerateAttestation_AgeProof
    \/ GenerateAttestation_RiskProof
    \/ GenerateAttestation_SelectiveDisclosureProof
    \/ \E request \in TransferRequests : ExecutePrivateTransfer_Begin(request)
    \/ ExecutePrivateTransfer_CheckFailed
    \/ ExecutePrivateTransfer_Checked
    \/ ExecutePrivateTransfer_Submit
    \/ \E delivered \in BOOLEAN : ExecutePrivateTransfer_Done(delivered)
    \/ \E given \in VerifiableAttestations : VerifyAttestation_Begin(given)
    \/ VerifyAttestation_VerifyProof
    \/ \E addresses \in BatchInputs : BatchCheckCompliance_Begin(addresses)
    \/ BatchCheckCompliance_CheckFailed
    \/ BatchCheckCompliance_WindowDone

Spec == Init /\ [][Next]_vars

\* Spec with the awaited proof calls of generateAttestation settling: a
\* proof step that is due is eventually taken
SpecProofsSettle ==
    /\ Spec
    /\ WF_vars(GenerateAttestation_AgeProof)
    /\ WF_vars(GenerateAttestation_RiskProof)
    /\ WF_vars(GenerateAttestation_SelectiveDisclosureProof)

-----------------------------------------------------------------------------
(* NoirProofService called directly: the three proof generators applied to *)
(* inputs drawn from a grid that straddles every bound of the validators.  *)

AgeVerificationInputs ==
    [age        : {0 - 1, 0, 17, 30, 255, 256, NaN},
     minimumAge : {0 - 1, 0, 18, 255, 256, NaN}]

RiskThresholdInputs ==
    [riskScore      : {0, 1, 2, 8, 10, 11, NaN},
     maxAllowedRisk : {0, 1, 5, 10, 11, NaN}]

SelectiveDisclosureInputs ==
    [age              : {0 - 1, 17, 30, 256, NaN},
     riskScore        : {0, 2, 8, 11},
     isSanctioned     : BOOLEAN,
     walletBalanceUsd : {500, 10000, NaN},
     minimumAge       : {18, 256, NaN},
     maxRiskScore     : {0, 5, 11, NaN},
     minBalanceUsd    : {1000, NaN}]

ProofRequests ==
    {[kind |-> "generateAgeProof", input |-> i] : i \in AgeVerificationInputs}
    \cup {[kind |-> "generateRiskProof", input |-> i]
            : i \in RiskThresholdInputs}
    \cup {[kind |-> "generateSelectiveDisclosureProof", input |-> i]
            : i \in SelectiveDisclosureInputs}

\* a generator's outcome: the validator's error thrown, or a proof returned
ProofOutcome(kind, input, validation, generated) ==
    IF IsDef(validation)
    THEN Threw(kind, Val(validation), [input |-> input])
    ELSE IF IsDef(generated)
    THEN Returned(kind, Val(generated), [input |-> input])
    ELSE Threw(kind, "backend", [input |-> input])

GenerateAgeProof ==
    /\ op.kind = "generateAgeProof"
    /\ LET witness == [age |-> op.input.age,
                       minimum_age |-> op.input.minimumAge]
       IN  \E g \in GenerateProof("age_verification", witness) :
              outcome' = ProofOutcome(op.kind, op.input,
                                      ValidateAgeInput(op.input), g)
    /\ op' = Idle
    /\ UNCHANGED <<pageState, noirCaches, config, mockResponses, noirInitialized, checks>>

GenerateRiskProof ==
    /\ op.kind = "generateRiskProof"
    /\ LET witness == [risk_score |-> op.input.riskScore,
                       max_allowed_risk |-> op.input.maxAllowedRisk]
       IN  \E g \in GenerateProof("risk_threshold", witness) :
              outcome' = ProofOutcome(op.kind, op.input,
                                      ValidateRiskInput(op.input), g)
    /\ op' = Idle
    /\ UNCHANGED <<pageState, noirCaches, config, mockResponses, noirInitialized, checks>>

GenerateSelectiveDisclosureProof ==
    /\ op.kind = "generateSelectiveDisclosureProof"
    /\ LET witness == [age |-> op.input.age,
                       risk_score |-> op.input.riskScore,
                       is_sanctioned |-> op.input.isSanctioned,
                       wallet_balance_usd |-> op.input.walletBalanceUsd,
                       minimum_age |-> op.input.minimumAge,
                       max_risk_score |-> op.input.maxRiskScore,
                       min_balance_usd |-> op.input.minBalanceUsd]
       IN  \E g \in GenerateProof("selective_disclosure", witness) :
              outcome' = ProofOutcome(op.kind, op.input,
                            ValidateSelectiveDisclosureInput(op.input), g)
    /\ op' = Idle
    /\ UNCHANGED <<pageState, noirCaches, config, mockResponses, noirInitialized, checks>>

\* a NoirProofService, before or after initialize(), and one call on it
InitProofs ==
    /\ config = Config(TRUE, Undef, Undef, Undef)
    /\ mockResponses = [a \in Addresses |-> Undef]
    /\ noirInitialized \in BOOLEAN
    /\ op \in ProofRequests
    /\ checks = <<>>
    /\ outcome = NoOutcome
    /\ now = 0
    /\ scheduledWithdrawals = <<>>
    /\ circuitCache = NoCircuits
    /\ backendCache = NoBackends

NextProofs ==
    \/ GenerateAgeProof
    \/ GenerateRiskProof
    \/ GenerateSelectiveDisclosureProof

SpecProofs == InitProofs /\ [][NextProofs]_vars

-----------------------------------------------------------------------------
(* privacy-utils: splitAmount and splitAmountDeterministic.                *)
(* Amounts are integers in units of 1/AmountUnits, so that a total can     *)
(* carry one decimal more than the four the result is rounded to.  A draw  *)
(* of Math.random() (or of seededRandom) is k / RandomResolution for an    *)
(* integer k; the arithmetic on amounts is exact.                          *)

AmountUnits == 100000
RandomResolution == 10
MaxSplitCount == 5

\* quotient and remainder of x * y by d, for x, y >= 0 and d > 0, without
\* forming x * y (which would leave the range of the integers at hand)
RECURSIVE MulDivMod(_, _, _)
MulDivMod(x, y, d) ==
    IF y = 0 THEN <<0, 0>>
    ELSE LET half == MulDivMod(x, y \div 2, d)
             rest == 2 * half[2] + (IF y % 2 = 1 THEN x % d ELSE 0)
         IN  <<2 * half[1] + (IF y % 2 = 1 THEN x \div d ELSE 0)
                  + (rest \div d),
               rest % d>>

\* floor(x * y / d)
FloorMulDiv(x, y, d) == MulDivMod(x, y, d)[1]

\* Math.pow(r, 2) + 0.1 for r = k / RandomResolution, in units of
\* 1 / RandomResolution^2
Weight(k) == k * k + (RandomResolution * RandomResolution) \div 10

\* 1 + (r - 0.5) * 0.1 for r = k / RandomResolution, in units of
\* 1 / (10 * RandomResolution)
NoiseFactor(k) == 19 * (RandomResolution \div 2) + k

cents == <<17, 23, 41, 67, 83, 91, 3, 7, 13, 29, 37, 43>>

\* cents[Math.floor(r * cents.length)] for r = k / RandomResolution
RandomCents(k) == cents[((k * Len(cents)) \div RandomResolution) + 1]

RECURSIVE SumSeq(_)
SumSeq(s) == IF Len(s) = 0 THEN 0 ELSE s[Len(s)] + SumSeq(SubSeq(s, 1, Len(s) - 1))

\* the fragment of weight w out of totalWeight: (w / totalWeight) * total,
\* noise applied, floored to two decimals, plus randomCents / 10000
NoisySplit(total, w, totalWeight, noiseDraw, centsDraw) ==
    (FloorMulDiv(w * total, NoiseFactor(noiseDraw),
                 totalWeight * (AmountUnits \div 100) * 10 * RandomResolution)
        * (AmountUnits \div 100))
    + RandomCents(centsDraw) * (AmountUnits \div 10000)

\* Math.round(s * 10000) / 10000
RoundTo4(s) ==
    ((s + (AmountUnits \div 20000)) \div (AmountUnits \div 10000))
        * (AmountUnits \div 10000)

\* (variant for C15: the rounding is to two decimals)
AbsorbResidualRoundTo2(total, splits) ==
    [k \in 1..Len(splits) |->
        (((IF k = Len(splits)
           THEN splits[k] + (total - SumSeq(splits))
           ELSE splits[k]) + (AmountUnits \div 200))
         \div (AmountUnits \div 100)) * (AmountUnits \div 100)]

\* splits[splits.length - 1] += total - currentTotal, then every fragment is
\* rounded to four decimals
AbsorbResidual(total, splits) ==
    [k \in 1..Len(splits) |->
        RoundTo4(IF k = Len(splits)
                 THEN splits[k] + (total - SumSeq(splits))
                 ELSE splits[k])]

\* the band of fragment counts splitAmount selects for a total
SplitBand(total) ==
    IF total * 10 < 5 * AmountUnits THEN <<2, 3>>
    ELSE IF total < 2 * AmountUnits THEN <<3, 4>>
    ELSE IF total < 10 * AmountUnits THEN <<3, 5>>
    ELSE <<4, 7>>

\* effectiveMin + Math.floor(Math.random() * (effectiveMax - effectiveMin + 1))
SplitCountOf(total, minSplits, maxSplits, k) ==
    LET band == IF ~IsDef(minSplits) \/ ~IsDef(maxSplits)
                THEN SplitBand(total)
                ELSE <<Val(minSplits), Val(maxSplits)>>
    IN  band[1] + (k * (band[2] - band[1] + 1)) \div RandomResolution

\* totals: below 0.1, 0.1, 0.12345, 0.4, 1, 5.00007, 10, 100.00001
SplitTotals == {5000, 10000, 12345, 40000, 100000, 500007, 1000000, 10000001}
Draws == 0..(RandomResolution - 1)
\* the least and the greatest draw; the draws that select entries 83 and 3
\* of cents
ExtremeDraws == {0, RandomResolution - 1}
CentsDraws == {4, 5}

SplitInputs ==
    [total : SplitTotals, minSplits : {Undef}, maxSplits : {Undef}]
    \cup [total : {100000}, minSplits : {Some(1)},
          maxSplits : {Some(1), Some(2)}]

SplitDeterministicInputs ==
    [total : {5000, 10000, 250000}, splitCount : 1..MaxSplitCount]

SplitReturn(kind, total, splitCount, splits, result) ==
    Returned(kind, result,
             [total |-> total, splitCount |-> splitCount, splits |-> splits])

\* the calls considered
SplitCalls ==
    {[kind |-> "splitAmount", pc |-> "call", in |-> in] : in \in SplitInputs}
    \cup {[kind |-> "splitAmountDeterministic", pc |-> "call", in |-> in]
             : in \in SplitDeterministicInputs}

\* splitAmount: the early return for a small total, else the fragment count
SplitAmount_Begin(countDraw) ==
    /\ op.kind = "splitAmount" /\ op.pc = "call"
    /\ LET in == op.in
           splitCount == SplitCountOf(in.total, in.minSplits, in.maxSplits,
                                      countDraw)
       IN  IF in.total * 10 < AmountUnits
           THEN /\ outcome' = SplitReturn("splitAmount", in.total, 1,
                                          <<in.total>>, <<in.total>>)
                /\ op' = Idle
           ELSE /\ splitCount <= MaxSplitCount
                /\ op' = [kind |-> "splitAmount", pc |-> "weights",
                          total |-> in.total, splitCount |-> splitCount,
                          weights |-> <<>>, splits |-> <<>>]
                /\ outcome' = NoOutcome
    /\ UNCHANGED <<pageState, noirCaches, config, mockResponses, noirInitialized, checks>>

\* splitAmountDeterministic: the early return, else the given count
SplitAmountDeterministic_Begin ==
    /\ op.kind = "splitAmountDeterministic" /\ op.pc = "call"
    /\ LET in == op.in
       IN  IF in.total * 10 < AmountUnits
           THEN /\ outcome' = SplitReturn("splitAmountDeterministic",
                                          in.total, 1, <<in.total>>,
                                          <<in.total>>)
                /\ op' = Idle
           ELSE /\ op' = [kind |-> "splitAmountDeterministic",
                          pc |-> "weights", total |-> in.total,
                          splitCount |-> in.splitCount,
                          weights |-> <<>>, splits |-> <<>>]
                /\ outcome' = NoOutcome
    /\ UNCHANGED <<pageState, noirCaches, config, mockResponses, noirInitialized, checks>>

\* weights.push(Math.pow(random, 2) + 0.1), once per fragment
Split_Weight(k) ==
    /\ op.kind \in {"splitAmount", "splitAmountDeterministic"}
    /\ op.pc = "weights"
    /\ LET weights == Append(op.weights, Weight(k))
       IN  op' = [op EXCEPT !.weights = weights,
                            !.pc = IF Len(weights) = op.splitCount
                                   THEN "noise" ELSE "weights"]
    /\ UNCHANGED <<pageState, noirCaches, config, mockResponses, noirInitialized, checks, outcome>>

\* the second map: noise and cents for the next fragment
Split_Noise(noiseDraw, centsDraw) ==
    /\ op.kind \in {"splitAmount", "splitAmountDeterministic"}
    /\ op.pc = "noise"
    /\ Len(op.splits) < op.splitCount
    /\ op' = [op EXCEPT !.splits = Append(@,
                 NoisySplit(op.total, op.weights[Len(op.splits) + 1],
                            SumSeq(op.weights), noiseDraw, centsDraw))]
    /\ UNCHANGED <<pageState, noirCaches, config, mockResponses, noirInitialized, checks, outcome>>

\* the residual goes to the last fragment and the rounded list is returned
Split_Return ==
    /\ op.kind \in {"splitAmount", "splitAmountDeterministic"}
    /\ op.pc = "noise"
    /\ Len(op.splits) = op.splitCount
    /\ outcome' = SplitReturn(op.kind, op.total, op.splitCount, op.splits,
                              AbsorbResidual(op.total, op.splits))
    /\ op' = Idle
    /\ UNCHANGED <<pageState, noirCaches, config, mockResponses, noirInitialized, checks>>

\* one call of either function
InitSplit ==
    /\ config = Config(TRUE, Undef, Undef, Undef)
    /\ mockResponses = [a \in Addresses |-> Undef]
    /\ noirInitialized = FALSE
    /\ op \in SplitCalls
    /\ checks = <<>>
    /\ outcome = NoOutcome
    /\ now = 0
    /\ scheduledWithdrawals = <<>>
    /\ circuitCache = NoCircuits
    /\ backendCache = NoBackends

NextSplit ==
    \/ \E countDraw \in Draws : SplitAmount_Begin(countDraw)
    \/ SplitAmountDeterministic_Begin
    \/ \E k \in ExtremeDraws : Split_Weight(k)
    \/ \E noiseDraw \in ExtremeDraws, centsDraw \in CentsDraws :
          Split_Noise(noiseDraw, centsDraw)
    \/ Split_Return

SpecSplit == InitSplit /\ [][NextSplit]_vars

-----------------------------------------------------------------------------
(* privacy-utils: deriveKeypair and deriveAddress.                          *)
(* A byte array is a sequence of 0..255, and so is a number too large for   *)
(* the checker's integers: its base-256 digits, most significant first.     *)
(* The hash of deriveKeypair is kept as its 32 big-endian bytes, which is   *)
(* also how the function writes it into `derived`.                          *)

Fill(n, b) == [k \in 1..n |-> b]

\* 0x7FFF...FFED = 2^255 - 19, as 32 big-endian bytes
ED25519_CURVE_ORDER == <<127>> \o Fill(30, 255) \o <<237>>

\* bytes + k for 0 <= k < 2^16, in the width of bytes (two bytes or more):
\* k is added to the two low bytes, and a carry out of them runs up
\* through the bytes that are 255
AddSmall(bytes, k) ==
    LET n == Len(bytes)
        v == bytes[n - 1] * 256 + bytes[n] + k
        Carried(p) == v >= 65536 /\ \A q \in (p + 1)..(n - 2) : bytes[q] = 255
    IN  [p \in 1..n |->
            IF p = n THEN v % 256
            ELSE IF p = n - 1 THEN (v \div 256) % 256
            ELSE IF Carried(p) THEN (bytes[p] + 1) % 256
            ELSE bytes[p]]

\* (hash * 256n + byte) % ED25519_CURVE_ORDER for a hash below the order:
\* x = hash * 256 + byte has 33 bytes; x = hi * 2^255 + lo, and 2^255 is
\* congruent to 19, so x is congruent to y = lo + 19 * hi < 2 * order
HashStep(hash, byte) ==
    LET x  == hash \o <<byte>>
        hi == x[1] * 2 + x[2] \div 128
        lo == <<x[2] % 128>> \o SubSeq(x, 3, 33)
        y  == AddSmall(lo, 19 * hi)
    IN  IF y[1] >= 128
        THEN AddSmall(<<y[1] - 128>> \o SubSeq(y, 2, 32), 19)
        ELSE IF SubSeq(y, 1, 31) = SubSeq(ED25519_CURVE_ORDER, 1, 31)
                /\ y[32] >= ED25519_CURVE_ORDER[32]
        THEN Fill(31, 0) \o <<y[32] - ED25519_CURVE_ORDER[32]>>
        ELSE y

\* DataView.setUint32(0, index, false): the index modulo 2^32, big-endian
IndexBytes(index) ==
    LET padded == Fill(4, 0) \o index
    IN  SubSeq(padded, Len(padded) - 3, Len(padded))

\* Keypair.fromSeed and PublicKey.toBase58 are one-to-one maps of the
\* library; the model keeps them symbolic
KeypairFromSeed(derived) ==
    [secretKey |-> derived, publicKey |-> <<"ed25519", derived>>]
ToBase58(publicKey) == <<"base58", publicKey>>

\* the seeds and indices considered: the 32-byte seeds of the tests, one
\* above the curve order, short ones; indices around 2^32 and of the size
\* of Date.now() + i, the hop index executePrivateWithdraw passes
DeriveSeeds ==
    {Fill(32, 42), Fill(32, 255), Fill(32, 0), <<1, 2, 3>>, <<>>}
DeriveIndices ==
    {<<0>>, <<1>>, <<2>>, <<1, 0>>, <<255, 255, 255, 255>>,
     <<1, 0, 0, 0, 0>>, <<1, 0, 0, 0, 1>>,
     <<1, 140, 0, 0, 0, 0>>, <<1, 141, 0, 0, 0, 0>>}

\* a caller that derives for two indices of one seed, or twice for one
DeriveCalls ==
    {[kind |-> k, pc |-> "call", seed |-> s, indices |-> <<i, j>>,
      results |-> <<>>, keypairs |-> <<>>]
        : k \in {"deriveKeypair", "deriveAddress"}, s \in DeriveSeeds,
          i \in DeriveIndices, j \in DeriveIndices}

DeriveFrame ==
    UNCHANGED <<pageState, noirCaches, config, mockResponses, noirInitialized, checks>>

\* deriveKeypair, up to the loop: combined = seed || indexBytes, hash = 0n
DeriveKeypair_Begin ==
    /\ op.kind \in {"deriveKeypair", "deriveAddress"} /\ op.pc = "call"
    /\ LET index      == op.indices[Len(op.results) + 1]
           indexBytes == IndexBytes(index)
           combined   == op.seed \o indexBytes
       IN  op' = [kind |-> op.kind, pc |-> "hash", seed |-> op.seed,
                  indices |-> op.indices, results |-> op.results,
                  keypairs |-> op.keypairs, combined |-> combined,
                  i |-> 0, hash |-> Fill(32, 0)]
    /\ UNCHANGED outcome
    /\ DeriveFrame

\* one iteration of the loop over combined
DeriveKeypair_HashByte ==
    /\ op.kind \in {"deriveKeypair", "deriveAddress"} /\ op.pc = "hash"
    /\ op.i < Len(op.combined)
    /\ op' = [op EXCEPT !.hash = HashStep(op.hash, op.combined[op.i + 1]),
                        !.i = op.i + 1]
    /\ UNCHANGED outcome
    /\ DeriveFrame

\* the caller takes the result, and goes on to its next call if it has one
Derive_Done(keypair, result) ==
    LET results  == Append(op.results, result)
        keypairs == Append(op.keypairs, keypair)
    IN  IF Len(results) = Len(op.indices)
        THEN /\ outcome' = Returned(op.kind, results,
                                    [seed |-> op.seed, indices |-> op.indices,
                                     keypairs |-> keypairs])
             /\ op' = Idle
        ELSE /\ op' = [kind |-> op.kind, pc |-> "call", seed |-> op.seed,
                       indices |-> op.indices, results |-> results,
                       keypairs |-> keypairs]
             /\ UNCHANGED outcome

\* deriveKeypair: the hash written big-endian into derived, and the keypair
DeriveKeypair_Return ==
    /\ op.kind = "deriveKeypair" /\ op.pc = "hash"
    /\ op.i = Len(op.combined)
    /\ LET derived == op.hash
           keypair == KeypairFromSeed(derived)
       IN  Derive_Done(keypair, keypair)
    /\ DeriveFrame

\* deriveAddress: deriveKeypair(seed, index).publicKey.toBase58()
DeriveAddress_Return ==
    /\ op.kind = "deriveAddress" /\ op.pc = "hash"
    /\ op.i = Len(op.combined)
    /\ LET derived == op.hash
           keypair == KeypairFromSeed(derived)
       IN  Derive_Done(keypair, ToBase58(keypair.publicKey))
    /\ DeriveFrame

InitDerive ==
    /\ config = Config(TRUE, Undef, Undef, Undef)
    /\ mockResponses = [a \in Addresses |-> Undef]
    /\ noirInitialized = FALSE
    /\ op \in DeriveCalls
    /\ checks = <<>>
    /\ outcome = NoOutcome
    /\ now = 0
    /\ scheduledWithdrawals = <<>>
    /\ circuitCache = NoCircuits
    /\ backendCache = NoBackends

NextDerive ==
    \/ DeriveKeypair_Begin
    \/ DeriveKeypair_HashByte
    \/ DeriveKeypair_Return
    \/ DeriveAddress_Return

SpecDerive == InitDerive /\ [][NextDerive]_vars

-----------------------------------------------------------------------------
(* privacy-utils: calculatePrivacyScore.                                    *)
(* The four component scores are rationals; they are kept as numerators    *)
(* over one common denominator, so that the sum and its rounding are exact. *)

MaxScoreCount == 8

Min(a, b) == IF a <= b THEN a ELSE b

\* Math.round(num / den) for num >= 0, den > 0: halves are rounded up
RoundRatio(num, den) == (2 * num + den) \div (2 * den)

\* addressScore * den: 100 when there are as many addresses as fragments,
\* else the share uniqueAddresses / splitCount of 100
AddressScore(c, den) ==
    IF c.uniqueAddresses >= c.splitCount
    THEN 100 * den
    ELSE (100 * c.uniqueAddresses * den) \div c.splitCount

CalculatePrivacyScore(c) ==
    LET den          == 120 * (IF c.splitCount = 0 THEN 1 ELSE c.splitCount)
        splitScore   == Min(100 * den, (c.splitCount * 100 * den) \div 5)
        addressScore == AddressScore(c, den)
        agingScore   == Min(100 * den, (c.minAgingHours * 100 * den) \div 48)
        poolScore    == Min(100 * den, (c.poolSize * den) \div 10)
    IN  \* weights 0.3, 0.25, 0.25 and 0.2 are 6, 5, 5 and 4 twentieths
        RoundRatio(6 * splitScore + 5 * addressScore
                     + 5 * agingScore + 4 * poolScore,
                   20 * den)

\* the configurations considered
ScoreConfigs ==
    [splitCount      : 0..MaxScoreCount,
     uniqueAddresses : 0..MaxScoreCount,
     minAgingHours   : {0, 12, 24, 47, 48, 72},
     poolSize        : {0, 10, 500, 1000, 5000}]

ScoreCalls ==
    {[kind |-> "calculatePrivacyScore", pc |-> "call", config |-> c]
        : c \in ScoreConfigs}

CalculatePrivacyScore_Call ==
    /\ op.kind = "calculatePrivacyScore" /\ op.pc = "call"
    /\ outcome' = Returned(op.kind, CalculatePrivacyScore(op.config),
                           [config |-> op.config])
    /\ op' = Idle
    /\ UNCHANGED <<pageState, noirCaches, config, mockResponses, noirInitialized, checks>>

InitScore ==
    /\ config = Config(TRUE, Undef, Undef, Undef)
    /\ mockResponses = [a \in Addresses |-> Undef]
    /\ noirInitialized = FALSE
    /\ op \in ScoreCalls
    /\ checks = <<>>
    /\ outcome = NoOutcome
    /\ now = 0
    /\ scheduledWithdrawals = <<>>
    /\ circuitCache = NoCircuits
    /\ backendCache = NoBackends

NextScore == CalculatePrivacyScore_Call

SpecScore == InitScore /\ [][NextScore]_vars

-----------------------------------------------------------------------------
(* page.tsx: the withdrawal scheduler and the withdrawal records.           *)
(* Times are milliseconds on a clock that starts at 0; a draw of            *)
(* Math.random() is k / RandomResolution, as for splitAmount.               *)

MaxFragments == 2
MaxRecords == 2
MaxClock == 1
ClockStep == 30 * 60 * 1000

minAgingMs == 24 * 60 * 60 * 1000
avgDelayMs == 4 * 60 * 60 * 1000

\* Math.round(-avgDelayMs * Math.log(1 - k / 10)) for k = 0..9
poissonDelays ==
    <<0, 1517191, 3213267, 5136119, 7355889, 9981319, 13194587, 17337208,
      23175906, 33157225>>
PoissonDelay(k) == poissonDelays[k + 1]

\* (Math.random() - 0.5) * 60 * 60 * 1000
Jitter(k) == ((2 * k - RandomResolution) * 30 * 60 * 1000) \div RandomResolution

PoissonDraws == {0, 5}
JitterDraws == {0, 9}

\* a number of the clock's size as the base-256 digits IndexBytes takes
NumberBytes(n) ==
    <<(n \div 16777216) % 256, (n \div 65536) % 256, (n \div 256) % 256,
      n % 256>>

\* the address derived for an index from the page's addressSeed: a function
\* of the seed, which is fixed here, and of the index bytes
FreshAddress(index) == ToBase58(<<"addressSeed", IndexBytes(NumberBytes(index))>>)
employeeAddress == ToBase58(<<"wallet">>)

\* `WD-${Date.now().toString(36)}-${index}`
WithdrawalId(time, index) == <<"WD", time, index>>

ScheduledWithdrawal(id, amount, targetAddress, scheduledTime, status) ==
    [id |-> id, amount |-> amount, targetAddress |-> targetAddress,
     scheduledTime |-> scheduledTime, status |-> status]

\* one fragment of the schedule: the delay is added to currentTime, the
\* jitter to the scheduled time only
ScheduleFragment(op_, poissonDraw, jitterDraw) ==
    LET index         == op_.i
        poissonDelay  == PoissonDelay(poissonDraw)
        currentTime   == op_.currentTime + poissonDelay
        jitter        == Jitter(jitterDraw)
        scheduledTime == currentTime + jitter
    IN  [op_ EXCEPT
           !.currentTime = currentTime,
           !.i = index + 1,
           !.records = Append(op_.records,
               ScheduledWithdrawal(WithdrawalId(now, index),
                                   op_.splits[index + 1],
                                   FreshAddress(index), scheduledTime,
                                   "pending"))]

\* the fragments splitAmount returns for the amount withdrawn: equal shares
\* stand for them, the schedule and the records do not read the amounts
WithdrawSplits(amount) ==
    {[k \in 1..n |-> amount \div n] : n \in 1..MaxFragments}

WithdrawAmounts == {NaN, 0, AmountUnits}
ShieldedBalances == {0, AmountUnits}

PageFrame == UNCHANGED <<noirCaches, config, mockResponses, noirInitialized, checks>>

PageReturn(kind, value, note) ==
    /\ outcome' = Returned(kind, value, note)
    /\ op' = Idle

\* scheduleWithdrawals(splits, baseAddress, seed), up to the map
ScheduleWithdrawals_Begin(splits) ==
    /\ op = Idle
    /\ op' = [kind |-> "scheduleWithdrawals", pc |-> "map", splits |-> splits,
              i |-> 0, now |-> now, currentTime |-> now + minAgingMs,
              records |-> <<>>]
    /\ UNCHANGED <<pageState, outcome>>
    /\ PageFrame

\* one element of the map
ScheduleWithdrawals_Map(poissonDraw, jitterDraw) ==
    /\ op.kind = "scheduleWithdrawals" /\ op.pc = "map"
    /\ op.i < Len(op.splits)
    /\ op' = ScheduleFragment(op, poissonDraw, jitterDraw)
    /\ UNCHANGED <<pageState, outcome>>
    /\ PageFrame

ScheduleWithdrawals_Return ==
    /\ op.kind = "scheduleWithdrawals" /\ op.pc = "map"
    /\ op.i = Len(op.splits)
    /\ PageReturn(op.kind, op.records, [now |-> op.now])
    /\ UNCHANGED pageState
    /\ PageFrame

\* executePrivateWithdraw, up to the first loop of the mode it runs in
ExecutePrivateWithdraw_Begin(amount, shieldedBalance, demoMode, connected, unshielded) ==
    /\ op = Idle
    /\ IF amount = NaN \/ amount <= 0 \/ amount > shieldedBalance
       THEN PageReturn("executePrivateWithdraw", "invalid", [now |-> now])
       ELSE IF demoMode
       THEN /\ \E splits \in WithdrawSplits(amount) :
                  op' = [kind |-> "executePrivateWithdraw", pc |-> "demo",
                         splits |-> splits]
            /\ UNCHANGED outcome
       ELSE IF ~connected
       THEN PageReturn("executePrivateWithdraw", "not connected",
                       [now |-> now])
       ELSE IF ~unshielded
       THEN PageReturn("executePrivateWithdraw", "unshield failed",
                       [now |-> now])
       ELSE /\ \E splits \in WithdrawSplits(amount) :
                  op' = [kind |-> "executePrivateWithdraw", pc |-> "phase2",
                         splits |-> splits, i |-> 0, hopKeypairs |-> <<>>,
                         records |-> <<>>]
            /\ UNCHANGED outcome
    /\ UNCHANGED pageState
    /\ PageFrame

\* demo mode, phase 3: the schedule starts at now + minAgingMs
Demo_ScheduleBegin ==
    /\ op.kind = "executePrivateWithdraw" /\ op.pc = "demo"
    /\ op' = [kind |-> op.kind, pc |-> "demoSchedule", splits |-> op.splits,
              i |-> 0, now |-> now, currentTime |-> now + minAgingMs,
              records |-> <<>>]
    /\ UNCHANGED <<pageState, outcome>>
    /\ PageFrame

\* demo mode: one fragment is scheduled and pushed to demoWithdrawals
Demo_Schedule(poissonDraw, jitterDraw) ==
    /\ op.kind = "executePrivateWithdraw" /\ op.pc = "demoSchedule"
    /\ op.i < Len(op.splits)
    /\ op' = ScheduleFragment(op, poissonDraw, jitterDraw)
    /\ UNCHANGED <<pageState, outcome>>
    /\ PageFrame

\* demo mode: setScheduledWithdrawals(prev => [...prev, ...demoWithdrawals])
Demo_Commit ==
    /\ op.kind = "executePrivateWithdraw" /\ op.pc = "demoSchedule"
    /\ op.i = Len(op.splits)
    /\ scheduledWithdrawals' = scheduledWithdrawals \o op.records
    /\ PageReturn(op.kind, "scheduled", [now |-> op.now])
    /\ UNCHANGED now
    /\ PageFrame

\* live mode, phase 2: a fragment is sent to its hop address, or fails
Phase2_Fragment(sent) ==
    /\ op.kind = "executePrivateWithdraw" /\ op.pc = "phase2"
    /\ op.i < Len(op.splits)
    /\ LET i        == op.i
           splitAmt == op.splits[i + 1]
           hopIndex == now + i
           hop      == [hopAddress |-> FreshAddress(hopIndex),
                        amount |-> splitAmt, index |-> i]
       IN  op' = [op EXCEPT
                    !.i = i + 1,
                    !.hopKeypairs = IF sent THEN Append(@, hop) ELSE @]
    /\ UNCHANGED <<pageState, outcome>>
    /\ PageFrame

\* live mode: every fragment failed, nothing is recorded
Phase2_AllFailed ==
    /\ op.kind = "executePrivateWithdraw" /\ op.pc = "phase2"
    /\ op.i = Len(op.splits)
    /\ Len(op.hopKeypairs) = 0
    /\ PageReturn(op.kind, "all fragments failed", [now |-> now])
    /\ UNCHANGED pageState
    /\ PageFrame

Phase3_Begin ==
    /\ op.kind = "executePrivateWithdraw" /\ op.pc = "phase2"
    /\ op.i = Len(op.splits)
    /\ Len(op.hopKeypairs) > 0
    /\ op' = [op EXCEPT !.pc = "phase3", !.i = 0]
    /\ UNCHANGED <<pageState, outcome>>
    /\ PageFrame

\* live mode, phase 3: the hop has too little to return (no record), the
\* return is confirmed (a record that is executed), or it fails (a record
\* that is pending); both records are dated Date.now()
Phase3_Return(result) ==
    /\ op.kind = "executePrivateWithdraw" /\ op.pc = "phase3"
    /\ op.i < Len(op.hopKeypairs)
    /\ LET hop == op.hopKeypairs[op.i + 1]
           withdrawalRecords ==
               CASE result = "insufficient" -> op.records
                 [] result = "confirmed" ->
                      Append(op.records,
                             ScheduledWithdrawal(WithdrawalId(now, hop.index),
                                                 hop.amount, employeeAddress,
                                                 now, "executed"))
                 [] result = "failed" ->
                      Append(op.records,
                             ScheduledWithdrawal(WithdrawalId(now, hop.index),
                                                 hop.amount, hop.hopAddress,
                                                 now, "pending"))
       IN  op' = [op EXCEPT !.i = op.i + 1, !.records = withdrawalRecords]
    /\ UNCHANGED <<pageState, outcome>>
    /\ PageFrame

\* live mode: setScheduledWithdrawals(prev => [...prev, ...withdrawalRecords])
Phase3_Commit ==
    /\ op.kind = "executePrivateWithdraw" /\ op.pc = "phase3"
    /\ op.i = Len(op.hopKeypairs)
    /\ scheduledWithdrawals' = scheduledWithdrawals \o op.records
    /\ PageReturn(op.kind, "returned", [now |-> now])
    /\ UNCHANGED now
    /\ PageFrame

\* time passes while the page waits; scheduleWithdrawals does not wait
Tick ==
    /\ now < MaxClock * ClockStep
    /\ op.kind # "scheduleWithdrawals"
    /\ now' = now + ClockStep
    /\ UNCHANGED <<scheduledWithdrawals, op, outcome>>
    /\ PageFrame

InitWithdraw ==
    /\ config = Config(TRUE, Undef, Undef, Undef)
    /\ mockResponses = [a \in Addresses |-> Undef]
    /\ noirInitialized = FALSE
    /\ op = Idle
    /\ checks = <<>>
    /\ outcome = NoOutcome
    /\ now = 0
    /\ scheduledWithdrawals = <<>>
    /\ circuitCache = NoCircuits
    /\ backendCache = NoBackends

\* a withdrawal begins while the records kept stay within the bound
NextWithdraw ==
    \/ /\ Len(scheduledWithdrawals) < MaxRecords
       /\ \E amount \in WithdrawAmounts, shieldedBalance \in ShieldedBalances,
             demoMode \in BOOLEAN, connected \in BOOLEAN,
             unshielded \in BOOLEAN :
             ExecutePrivateWithdraw_Begin(amount, shieldedBalance, demoMode,
                                          connected, unshielded)
    \/ Demo_ScheduleBegin
    \/ \E p \in PoissonDraws, j \in JitterDraws : Demo_Schedule(p, j)
    \/ Demo_Commit
    \/ \E sent \in BOOLEAN : Phase2_Fragment(sent)
    \/ Phase2_AllFailed
    \/ Phase3_Begin
    \/ \E result \in {"insufficient", "confirmed", "failed"} :
          Phase3_Return(result)
    \/ Phase3_Commit
    \/ \E splits \in WithdrawSplits(AmountUnits) :
          ScheduleWithdrawals_Begin(splits)
    \/ \E p \in PoissonDraws, j \in JitterDraws : ScheduleWithdrawals_Map(p, j)
    \/ ScheduleWithdrawals_Return
    \/ Tick

SpecWithdraw == InitWithdraw /\ [][NextWithdraw]_vars

-----------------------------------------------------------------------------
(* NoirProofService: serializeProof and deserializeProof.                   *)
(* A string is the sequence of its characters; a proof's payload is the     *)
(* sequence of its bytes.  JSON.stringify writes the text that JSON.parse   *)
(* reads back, character by character.                                      *)

MaxPayload == 3

Quote == "\""
Backslash == "\\"

KeyProof == <<"p", "r", "o", "o", "f">>
KeyPublicInputs ==
    <<"p", "u", "b", "l", "i", "c", "I", "n", "p", "u", "t", "s">>
KeyIsRealProof ==
    <<"i", "s", "R", "e", "a", "l", "P", "r", "o", "o", "f">>

\* JSON.stringify of a string, between the quotes: a quote and a backslash
\* are written behind a backslash
RECURSIVE JsonEscape(_)
JsonEscape(s) ==
    IF Len(s) = 0 THEN <<>>
    ELSE (IF Head(s) \in {Quote, Backslash}
          THEN <<Backslash, Head(s)>> ELSE <<Head(s)>>)
         \o JsonEscape(Tail(s))

JsonString(s) == <<Quote>> \o JsonEscape(s) \o <<Quote>>

JsonBoolean(b) ==
    IF b THEN <<"t", "r", "u", "e">> ELSE <<"f", "a", "l", "s", "e">>

\* the texts of the elements, separated by commas, in brackets
RECURSIVE JoinComma(_)
JoinComma(texts) ==
    IF Len(texts) = 0 THEN <<>>
    ELSE IF Len(texts) = 1 THEN texts[1]
    ELSE texts[1] \o <<",">> \o JoinComma(Tail(texts))

JsonArray(texts) == <<"[">> \o JoinComma(texts) \o <<"]">>

\* serializeProof: JSON.stringify({proof: Array.from(proof.proof),
\* publicInputs, isRealProof})
SerializeProof(proof) ==
    <<"{">>
    \o JsonString(KeyProof) \o <<":">>
    \o JsonArray([k \in 1..Len(proof.proof) |-> DigitsOf(proof.proof[k])])
    \o <<",">> \o JsonString(KeyPublicInputs) \o <<":">>
    \o JsonArray([k \in 1..Len(proof.publicInputs) |->
                     JsonString(proof.publicInputs[k])])
    \o <<",">> \o JsonString(KeyIsRealProof) \o <<":">>
    \o JsonBoolean(proof.isRealProof)
    \o <<"}">>

JsonDigits == {"0", "1", "2", "3", "4", "5", "6", "7", "8", "9"}
DigitValue(c) == CHOOSE d \in 0..9 : DigitsOf(d) = <<c>>

\* JSON.parse, reading text from pos: the value read and the position
\* behind it
Parsed(value, next) == [value |-> value, next |-> next]

\* a string, from behind its opening quote
RECURSIVE ReadString(_, _, _)
ReadString(text, pos, acc) ==
    IF text[pos] = Quote THEN Parsed(acc, pos + 1)
    ELSE IF text[pos] = Backslash
    THEN ReadString(text, pos + 2, Append(acc, text[pos + 1]))
    ELSE ReadString(text, pos + 1, Append(acc, text[pos]))

RECURSIVE ReadNumber(_, _, _)
ReadNumber(text, pos, acc) ==
    IF pos <= Len(text) /\ text[pos] \in JsonDigits
    THEN ReadNumber(text, pos + 1, acc * 10 + DigitValue(text[pos]))
    ELSE Parsed(acc, pos)

RECURSIVE ReadValue(_, _)
RECURSIVE ReadArray(_, _, _)

\* the elements of an array, from behind its opening bracket
ReadArray(text, pos, acc) ==
    IF text[pos] = "]" THEN Parsed(acc, pos + 1)
    ELSE IF text[pos] = "," THEN ReadArray(text, pos + 1, acc)
    ELSE LET element == ReadValue(text, pos)
         IN  ReadArray(text, element.next, Append(acc, element.value))

ReadValue(text, pos) ==
    IF text[pos] = Quote THEN ReadString(text, pos + 1, <<>>)
    ELSE IF text[pos] = "[" THEN ReadArray(text, pos + 1, <<>>)
    ELSE IF text[pos] = "t" THEN Parsed(TRUE, pos + 4)
    ELSE IF text[pos] = "f" THEN Parsed(FALSE, pos + 5)
    ELSE ReadNumber(text, pos, 0)

\* the members of an object, from behind its opening brace: pairs of a key
\* and a value
RECURSIVE ReadMembers(_, _, _)
ReadMembers(text, pos, acc) ==
    IF text[pos] = "}" THEN Parsed(acc, pos + 1)
    ELSE IF text[pos] = "," THEN ReadMembers(text, pos + 1, acc)
    ELSE LET key   == ReadString(text, pos + 1, <<>>)
             value == ReadValue(text, key.next + 1)
         IN  ReadMembers(text, value.next,
                         Append(acc, <<key.value, value.value>>))

JsonParse(text) == ReadMembers(text, 2, <<>>).value

\* parsed.key: undefined when the object has no such member
Member(parsed, key) ==
    IF \E k \in 1..Len(parsed) : parsed[k][1] = key
    THEN Some(parsed[CHOOSE k \in 1..Len(parsed) : parsed[k][1] = key][2])
    ELSE Undef

\* new Uint8Array(array): every element modulo 256
Uint8Array(array) == [k \in 1..Len(array) |-> array[k] % 256]

\* (variant for C22: what is read back is always taken for a placeholder)
DeserializeProofAsPlaceholder(serialized) ==
    LET parsed == JsonParse(serialized)
    IN  [proof        |-> Uint8Array(Val(Member(parsed, KeyProof))),
         publicInputs |-> Val(Member(parsed, KeyPublicInputs)),
         isRealProof  |-> FALSE]

DeserializeProof(serialized) ==
    LET parsed == JsonParse(serialized)
    IN  [proof        |-> Uint8Array(Val(Member(parsed, KeyProof))),
         publicInputs |-> Val(Member(parsed, KeyPublicInputs)),
         isRealProof  |-> Nullish(Member(parsed, KeyIsRealProof), FALSE)]

\* the proofs considered: payloads of up to MaxPayload bytes that include
\* the bytes of a quote, a backslash and a brace, and public inputs as the
\* service writes them and as a backend or a caller may write them
PayloadBytes == {0, 34, 92, 123, 255}
RECURSIVE Payloads(_)
Payloads(n) ==
    IF n = 0 THEN {<<>>}
    ELSE Payloads(n - 1)
         \cup {Append(p, b) : p \in {q \in Payloads(n - 1) : Len(q) = n - 1},
                              b \in PayloadBytes}

PublicInputStrings ==
    {NumToString(18), NumToString(NaN), <<>>, <<"0", "x", "5">>,
     <<"a", Quote, "b">>, <<Backslash>>, <<Backslash, Quote>>,
     <<",">>, <<"]", "}">>}

PublicInputLists ==
    {<<>>}
    \cup {<<a>> : a \in PublicInputStrings}
    \cup {<<a, b>> : a \in {NumToString(18), <<Backslash>>},
                     b \in PublicInputStrings}
    \cup {<<NumToString(18), NumToString(5), NumToString(1000)>>}

GeneratedProofs ==
    [proof : Payloads(MaxPayload), publicInputs : PublicInputLists,
     isRealProof : BOOLEAN]

SerializeCalls ==
    {[kind |-> "serializeProof", pc |-> "call", proof |-> p]
        : p \in GeneratedProofs}

\* service.serializeProof(original)
SerializeProof_Call ==
    /\ op.kind = "serializeProof" /\ op.pc = "call"
    /\ op' = [kind |-> "deserializeProof", pc |-> "call",
              proof |-> op.proof, serialized |-> SerializeProof(op.proof)]
    /\ UNCHANGED <<pageState, noirCaches, config, mockResponses, noirInitialized, checks, outcome>>

\* service.deserializeProof(serialized)
DeserializeProof_Call ==
    /\ op.kind = "deserializeProof" /\ op.pc = "call"
    /\ outcome' = Returned(op.kind, DeserializeProof(op.serialized),
                           [original |-> op.proof,
                            serialized |-> op.serialized])
    /\ op' = Idle
    /\ UNCHANGED <<pageState, noirCaches, config, mockResponses, noirInitialized, checks>>

InitSerialize ==
    /\ config = Config(TRUE, Undef, Undef, Undef)
    /\ mockResponses = [a \in Addresses |-> Undef]
    /\ noirInitialized = FALSE
    /\ op \in SerializeCalls
    /\ checks = <<>>
    /\ outcome = NoOutcome
    /\ now = 0
    /\ scheduledWithdrawals = <<>>
    /\ circuitCache = NoCircuits
    /\ backendCache = NoBackends

NextSerialize ==
    \/ SerializeProof_Call
    \/ DeserializeProof_Call

SpecSerialize == InitSerialize /\ [][NextSerialize]_vars

-----------------------------------------------------------------------------
(* NoirProofService: concurrent generateProof and verifyProof calls on one *)
(* service, with its circuit and backend caches.  A call runs up to its     *)
(* next await in one step; the steps of different calls interleave.         *)

MaxCalls == 2

\* the calls considered: for two circuit types, a proof to generate, and a
\* proof with or without isRealProof to verify
NoirCalls ==
    [fn : {"generateProof", "verifyProof"},
     circuitType : {"age_verification", "risk_threshold"},
     isRealProof : BOOLEAN]

\* a fetched artifact; load tells the fetches of one circuit type apart
CircuitArtifact(circuitType, load) ==
    [bytecode |-> <<"bytecode", circuitType, load>>]

\* (variant for C25: a backend is constructed by every call)
BackendAlwaysNew(cache, circuitType, circuit, constructs) ==
    IF constructs
    THEN [cache EXCEPT ![circuitType] =
             [backend |-> Some(<<"UltraHonkBackend", circuit.bytecode>>),
              constructed |-> @.constructed + 1]]
    ELSE cache

\* let backend = backendCache.get(circuitType); if (!backend) { backend =
\* new UltraHonkBackend(circuit.bytecode); backendCache.set(...) }: the
\* cache afterwards (unchanged when the constructor throws)
BackendFor(cache, circuitType, circuit, constructs) ==
    IF IsDef(cache[circuitType].backend)
    THEN cache
    ELSE IF constructs
    THEN [cache EXCEPT ![circuitType] =
             [backend |-> Some(<<"UltraHonkBackend", circuit.bytecode>>),
              constructed |-> @.constructed + 1]]
    ELSE cache

CallsFrame ==
    UNCHANGED <<pageState, config, mockResponses, noirInitialized, checks, outcome>>

SetCall(i, pc, circuit) ==
    op' = [op EXCEPT !.calls[i].pc = pc, !.calls[i].circuit = circuit]

\* generateProof or verifyProof is called: a placeholder is verified, and a
\* proof is generated without the libraries, with no load; else loadCircuit
\* is entered
Noir_Call(call) ==
    /\ op.kind = "noirCalls"
    /\ Len(op.calls) < MaxCalls
    /\ LET direct ==
               IF call.fn = "verifyProof" THEN ~call.isRealProof
               ELSE ~(NoirUseRealProofs /\ noirInitialized)
       IN  op' = [op EXCEPT !.calls = Append(@,
                     [fn |-> call.fn, circuitType |-> call.circuitType,
                      isRealProof |-> call.isRealProof,
                      pc |-> IF direct THEN "done" ELSE "loadCircuit",
                      circuit |-> Undef])]
    /\ UNCHANGED noirCaches
    /\ CallsFrame

\* loadCircuit: the cached artifact is returned, or the fetch is awaited
LoadCircuit_Begin(i) ==
    /\ op.kind = "noirCalls" /\ i \in 1..Len(op.calls)
    /\ op.calls[i].pc = "loadCircuit"
    /\ LET cached == circuitCache[op.calls[i].circuitType].artifact
       IN  IF IsDef(cached)
           THEN SetCall(i, "loaded", cached)
           ELSE SetCall(i, "fetch", Undef)
    /\ UNCHANGED noirCaches
    /\ CallsFrame

\* loadCircuit: the fetch has settled; the artifact is put into the cache
\* and returned, or null is returned
LoadCircuit_Fetched(i, ok) ==
    /\ op.kind = "noirCalls" /\ i \in 1..Len(op.calls)
    /\ op.calls[i].pc = "fetch"
    /\ LET circuitType == op.calls[i].circuitType
           circuit == CircuitArtifact(circuitType,
                                      circuitCache[circuitType].writes + 1)
       IN  IF ok
           THEN /\ circuitCache' = [circuitCache EXCEPT ![circuitType] =
                       [artifact |-> Some(circuit), writes |-> @.writes + 1]]
                /\ SetCall(i, "loaded", Some(circuit))
           ELSE /\ UNCHANGED circuitCache
                /\ SetCall(i, "loaded", Undef)
    /\ UNCHANGED backendCache
    /\ CallsFrame

\* generateRealProof behind loadCircuit: without a circuit it throws (the
\* placeholder is returned), else noir.execute is awaited
GenerateRealProof_Loaded(i) ==
    /\ op.kind = "noirCalls" /\ i \in 1..Len(op.calls)
    /\ op.calls[i].fn = "generateProof" /\ op.calls[i].pc = "loaded"
    /\ IF IsDef(op.calls[i].circuit)
       THEN SetCall(i, "execute", op.calls[i].circuit)
       ELSE SetCall(i, "done", Undef)
    /\ UNCHANGED noirCaches
    /\ CallsFrame

\* generateRealProof behind noir.execute: the backend is taken from the
\* cache or constructed, and backend.generateProof is awaited
GenerateRealProof_Executed(i, executes, constructs) ==
    /\ op.kind = "noirCalls" /\ i \in 1..Len(op.calls)
    /\ op.calls[i].fn = "generateProof" /\ op.calls[i].pc = "execute"
    /\ LET circuitType == op.calls[i].circuitType
           circuit == Val(op.calls[i].circuit)
           cache == BackendFor(backendCache, circuitType, circuit, constructs)
       IN  IF ~executes
           THEN /\ SetCall(i, "done", op.calls[i].circuit)
                /\ UNCHANGED backendCache
           ELSE /\ backendCache' = cache
                /\ SetCall(i, IF IsDef(cache[circuitType].backend)
                              THEN "backend" ELSE "done",
                           op.calls[i].circuit)
    /\ UNCHANGED circuitCache
    /\ CallsFrame

\* verifyProof behind loadCircuit: the structural check without a circuit or
\* without the backend class, else the backend is taken from the cache or
\* constructed, and backend.verifyProof is awaited
VerifyProof_Loaded(i, constructs) ==
    /\ op.kind = "noirCalls" /\ i \in 1..Len(op.calls)
    /\ op.calls[i].fn = "verifyProof" /\ op.calls[i].pc = "loaded"
    /\ LET circuitType == op.calls[i].circuitType
           cache == BackendFor(backendCache, circuitType,
                               Val(op.calls[i].circuit), constructs)
       IN  IF ~IsDef(op.calls[i].circuit) \/ ~noirInitialized
           THEN /\ SetCall(i, "done", op.calls[i].circuit)
                /\ UNCHANGED backendCache
           ELSE /\ backendCache' = cache
                /\ SetCall(i, IF IsDef(cache[circuitType].backend)
                              THEN "backend" ELSE "done",
                           op.calls[i].circuit)
    /\ UNCHANGED circuitCache
    /\ CallsFrame

\* backend.generateProof or backend.verifyProof has settled
Noir_BackendSettled(i) ==
    /\ op.kind = "noirCalls" /\ i \in 1..Len(op.calls)
    /\ op.calls[i].pc = "backend"
    /\ SetCall(i, "done", op.calls[i].circuit)
    /\ UNCHANGED noirCaches
    /\ CallsFrame

InitCaches ==
    /\ config = Config(TRUE, Undef, Undef, Undef)
    /\ mockResponses = [a \in Addresses |-> Undef]
    /\ noirInitialized \in BOOLEAN
    /\ op = [kind |-> "noirCalls", calls |-> <<>>]
    /\ checks = <<>>
    /\ outcome = NoOutcome
    /\ now = 0
    /\ scheduledWithdrawals = <<>>
    /\ circuitCache = NoCircuits
    /\ backendCache = NoBackends

NextCaches ==
    \/ Initialize
    \/ \E call \in NoirCalls : Noir_Call(call)
    \/ \E i \in 1..MaxCalls : LoadCircuit_Begin(i)
    \/ \E i \in 1..MaxCalls, ok \in BOOLEAN : LoadCircuit_Fetched(i, ok)
    \/ \E i \in 1..MaxCalls : GenerateRealProof_Loaded(i)
    \/ \E i \in 1..MaxCalls, executes \in BOOLEAN, constructs \in BOOLEAN :
          GenerateRealProof_Executed(i, executes, constructs)
    \/ \E i \in 1..MaxCalls, constructs \in BOOLEAN :
          VerifyProof_Loaded(i, constructs)
    \/ \E i \in 1..MaxCalls : Noir_BackendSettled(i)

SpecCaches == InitCaches /\ [][NextCaches]_vars

-----------------------------------------------------------------------------
(* POST /api/proof/verify: the route handler, applied to one request body. *)

VerifyRoute == "POST /api/proof/verify"

\* the request bodies considered: each field may be missing; circuitType may
\* be a string that names no circuit; proof may be empty or hold a number
\* above 255
VerifyRequestBodies ==
    [circuitType  : {Undef} \cup {Some(c) : c \in CircuitTypes \cup {"sha256"}},
     proof        : {Undef, Some(<<>>), Some(<<7>>), Some(<<0, 300>>)},
     publicInputs : {Undef, Some(<<>>), Some(<<NumToString(18)>>),
                     Some(<<NumToString(18), NumToString(5),
                            NumToString(1000)>>)}]

\* NextResponse.json(body, {status})
JsonResponse(status, body) == [status |-> status, body |-> body]

\* (variant for C30: the submitted proof is taken for a real one)
SubmittedProofAsReal(body) ==
    [proof        |-> Uint8Array(Val(body.proof)),
     publicInputs |-> Val(body.publicInputs),
     isRealProof  |-> TRUE]

\* the GeneratedProof the handler builds from the body
SubmittedProof(body) ==
    [proof        |-> Uint8Array(Val(body.proof)),
     publicInputs |-> Val(body.publicInputs),
     isRealProof  |-> FALSE]

\* body = await request.json(), the two checks that answer 400, and the call
\* of verifyProof on a service made for this request.  parses is whether the
\* request text is JSON; when it is not, the catch block answers 500.
VerifyRoute_Json(parses) ==
    /\ op.kind = VerifyRoute /\ op.pc = "json"
    /\ LET body == op.body
           answer(response) ==
               /\ outcome' = Returned(VerifyRoute, response, [body |-> body])
               /\ op' = Idle
       IN  IF ~parses
           THEN answer(JsonResponse(500, [error |-> "Proof verification failed"]))
           ELSE IF ~IsDef(body.circuitType) \/ ~IsDef(body.proof)
                   \/ ~IsDef(body.publicInputs)
           THEN answer(JsonResponse(400, [error |-> "Missing required fields"]))
           ELSE IF Val(body.circuitType) \notin CircuitTypes
           THEN answer(JsonResponse(400, [error |-> "Invalid circuit type"]))
           ELSE /\ op' = [op EXCEPT !.pc = "verifyProof",
                                    !.proof = Some(SubmittedProof(body))]
                /\ UNCHANGED outcome
    /\ UNCHANGED <<pageState, noirCaches, config, mockResponses, noirInitialized, checks>>

\* result = await service.verifyProof(body.circuitType, proof), and the
\* answer
VerifyRoute_Verified ==
    /\ op.kind = VerifyRoute /\ op.pc = "verifyProof"
    /\ \E result \in VerifyProof(Val(op.body.circuitType), Val(op.proof)) :
          outcome' = Returned(VerifyRoute,
                        JsonResponse(200,
                            [success |-> TRUE,
                             data |-> [isValid |-> result.isValid,
                                       circuitType |-> Val(op.body.circuitType),
                                       error |-> result.error]]),
                        [body |-> op.body])
    /\ op' = Idle
    /\ UNCHANGED <<pageState, noirCaches, config, mockResponses, noirInitialized, checks>>

\* one request; the libraries may have been initialized in the process
InitVerifyRoute ==
    /\ config = Config(TRUE, Undef, Undef, Undef)
    /\ mockResponses = [a \in Addresses |-> Undef]
    /\ noirInitialized \in BOOLEAN
    /\ op \in {[kind |-> VerifyRoute, pc |-> "json", body |-> b, proof |-> Undef]
                 : b \in VerifyRequestBodies}
    /\ checks = <<>>
    /\ outcome = NoOutcome
    /\ now = 0
    /\ scheduledWithdrawals = <<>>
    /\ circuitCache = NoCircuits
    /\ backendCache = NoBackends

NextVerifyRoute ==
    \/ \E parses \in BOOLEAN : VerifyRoute_Json(parses)
    \/ VerifyRoute_Verified

SpecVerifyRoute == InitVerifyRoute /\ [][NextVerifyRoute]_vars

-----------------------------------------------------------------------------
(* Claims.                                                                 *)

GeneratedAttestation ==
    outcome.kind = "generateAttestation" /\ outcome.status = "returned"

AllThreeProofs(attestation) ==
    /\ IsDef(attestation.proofs.age)
    /\ IsDef(attestation.proofs.risk)
    /\ IsDef(attestation.proofs.selectiveDisclosure)

\* the three validations, on the inputs the returned attestation was made of
AgeInputOf(o) ==
    [age |-> o.note.age, minimumAge |-> o.value.publicInputs.minimumAge]
RiskInputOf(o) ==
    [riskScore |-> o.value.complianceCheck.riskScore,
     maxAllowedRisk |-> o.value.publicInputs.maxRiskScore]
DisclosureInputOf(o) ==
    [age              |-> o.note.age,
     riskScore        |-> o.value.complianceCheck.riskScore,
     isSanctioned     |-> o.value.complianceCheck.isSanctioned,
     walletBalanceUsd |-> o.note.walletBalanceUsd,
     minimumAge       |-> o.value.publicInputs.minimumAge,
     maxRiskScore     |-> o.value.publicInputs.maxRiskScore,
     minBalanceUsd    |-> o.value.publicInputs.minBalanceUsd]

\* C1: an attestation returned by generateAttestation has isCompliant = true
\* exactly when all three proofs (age, risk, selective disclosure) were
\* generated, which is exactly when none of the three validations failed; a
\* validation failure in any step yields isCompliant = false.
C1_CompliantIffAllProofsGenerated ==
    GeneratedAttestation =>
        /\ outcome.value.isCompliant <=> AllThreeProofs(outcome.value)
        /\ outcome.value.isCompliant <=> outcome.note.failedStep = "none"
        /\ outcome.value.isCompliant <=>
              /\ ~IsDef(ValidateAgeInput(AgeInputOf(outcome)))
              /\ ~IsDef(ValidateRiskInput(RiskInputOf(outcome)))
              /\ ~IsDef(ValidateSelectiveDisclosureInput(
                            DisclosureInputOf(outcome)))

\* C1 witness: an attestation whose age and risk proofs were generated and
\* whose selective-disclosure validation failed.
C1_Witness ==
    /\ GeneratedAttestation
    /\ outcome.note.failedStep = "selectiveDisclosure"
    /\ IsDef(outcome.value.proofs.risk)
    /\ ~outcome.value.isCompliant

ScreenedTransfer(request) == request.requireCompliance # Some(FALSE)

\* C2: with requireCompliance not false, a transfer is handed to the network
\* only after the recipient's check returned isCompliant = true; for a
\* non-compliant recipient the call returns success = false with the verdict
\* and an error, and nothing was handed to the network.
C2_TransferOnlyAfterCompliantRecipient ==
    /\ (/\ op.kind = "executePrivateTransfer"
        /\ ScreenedTransfer(op.request)
        /\ op.submitted # <<>>) =>
           /\ IsDef(op.recipientCompliance)
           /\ Val(op.recipientCompliance).isCompliant
           /\ Val(op.recipientCompliance).subject = op.request.recipientAddress
    /\ (/\ outcome.kind = "executePrivateTransfer"
        /\ outcome.status = "returned"
        /\ ScreenedTransfer(outcome.note.request)) =>
           /\ IsDef(outcome.note.verdict)
           /\ IF Val(outcome.note.verdict).isCompliant
              THEN Len(outcome.note.submitted) = 1
              ELSE /\ outcome.note.submitted = <<>>
                   /\ outcome.value.success = FALSE
                   /\ outcome.value.recipientCompliance = outcome.note.verdict
                   /\ IsDef(outcome.value.error)
                   /\ ~IsDef(outcome.value.transferResult)

\* C2 witness: a screened transfer refused for a non-compliant recipient.
C2_Witness ==
    /\ outcome.kind = "executePrivateTransfer"
    /\ outcome.status = "returned"
    /\ ScreenedTransfer(outcome.note.request)
    /\ IsDef(outcome.value.recipientCompliance)
    /\ ~Val(outcome.value.recipientCompliance).isCompliant

\* C3: every transfer handed to the network by executePrivateTransfer was
\* preceded by a compliance screening of both the sender and the recipient.
C3_SenderAndRecipientScreened ==
    (op.kind = "executePrivateTransfer" /\ op.submitted # <<>>) =>
        {op.request.senderAddress, op.request.recipientAddress}
            \subseteq op.screened

\* a provider query of a checkCompliance call in flight has failed
ProviderFailed == \E i \in 1..Len(checks) : checks[i].stage = "failed"

\* C4: when a provider query fails, checkCompliance fails without a verdict
\* and the failure propagates: the operation that awaited it (
\* generateAttestation, executePrivateTransfer, batchCheckCompliance) throws,
\* returning no attestation, submitting no transfer and returning no result
\* map; no default verdict is fabricated.
C4_ProviderFailurePropagates ==
    /\ [](\A i \in 1..Len(checks) :
             checks[i].stage = "failed" => ~IsDef(checks[i].result))
    /\ [](ProviderFailed =>
             /\ op.kind \in {"generateAttestation", "executePrivateTransfer",
                             "batchCheckCompliance"}
             /\ op.kind = "executePrivateTransfer" => op.submitted = <<>>)
    /\ [][ProviderFailed =>
             \/ ProviderFailed'
             \/ /\ op' = Idle
                /\ outcome'.kind = op.kind
                /\ outcome'.status = "threw"
                /\ outcome'.error = "provider"]_vars

\* C4 witness: generateAttestation has thrown the provider's failure.
C4_Witness ==
    /\ outcome.kind = "generateAttestation"
    /\ outcome.status = "threw"
    /\ outcome.error = "provider"

VerifiedAttestation ==
    outcome.kind = "verifyAttestation" /\ outcome.status = "returned"

\* C5 (as stated): every attestation produced by generateAttestation,
\* compliant or not, passes verifyAttestation.
C5_EveryGeneratedAttestationVerifies ==
    (VerifiedAttestation /\ outcome.note.generated) => outcome.value = TRUE

\* C5 (amended): an attestation produced by generateAttestation with
\* isCompliant = true passes verifyAttestation unless its selective-disclosure
\* proof is a real proof that the backend verifier rejects or fails on; one
\* with isCompliant = false never passes.
C5_CompliantAttestationVerifies ==
    (VerifiedAttestation /\ outcome.note.generated) =>
        LET a == outcome.note.attestation
        IN  IF ~a.isCompliant
            THEN outcome.value = FALSE
            ELSE \/ outcome.value = TRUE
                 \/ /\ Val(a.proofs.selectiveDisclosure).isRealProof
                    /\ Val(outcome.note.verification).path
                           \in {"threw", "backend"}

\* C5 witness: a compliant attestation of the service has been verified.
C5_Witness ==
    /\ VerifiedAttestation
    /\ outcome.note.generated
    /\ outcome.note.attestation.isCompliant
    /\ outcome.value = TRUE

\* C6: verifyAttestation returns false for every attestation without a
\* selective-disclosure proof, whatever its isCompliant flag and its age and
\* risk proofs, and does not consult the proof verifier for it.
C6_NoSelectiveDisclosureNeverValid ==
    /\ op.kind = "verifyAttestation" =>
           IsDef(op.attestation.proofs.selectiveDisclosure)
    /\ (/\ VerifiedAttestation
        /\ ~IsDef(outcome.note.attestation.proofs.selectiveDisclosure)) =>
           /\ outcome.value = FALSE
           /\ outcome.note.verifierCalls = 0

\* C6 witness: an attestation flagged compliant, with an age proof and no
\* selective-disclosure proof, has been refused.
C6_Witness ==
    /\ VerifiedAttestation
    /\ outcome.note.attestation.isCompliant
    /\ IsDef(outcome.note.attestation.proofs.age)
    /\ ~IsDef(outcome.note.attestation.proofs.selectiveDisclosure)
    /\ outcome.value = FALSE

\* the proof steps before / from the failed one
StepsBefore(failedStep) ==
    CASE failedStep = "age" -> {}
      [] failedStep = "risk" -> {"age"}
      [] failedStep = "selectiveDisclosure" -> {"age", "risk"}
      [] OTHER -> {"age", "risk", "selectiveDisclosure"}

ProofsPresent(attestation) ==
    {k \in {"age", "risk", "selectiveDisclosure"} :
        IsDef(attestation.proofs[k])}

\* C7 (as stated): when a validation fails, an attestation with
\* isCompliant = false is returned and the proofs of the steps before the
\* failing one are omitted from it.
C7_EarlierProofsOmitted ==
    (GeneratedAttestation /\ outcome.note.failedStep # "none") =>
        /\ ~outcome.value.isCompliant
        /\ ProofsPresent(outcome.value)
               \cap StepsBefore(outcome.note.failedStep) = {}

\* C7 (amended): when a validation fails the call does not throw; it returns
\* an attestation with isCompliant = false in which the proofs of the steps
\* before the failing one are kept and the proofs of the failing step and of
\* the steps after it are absent.
C7_EarlierProofsKept ==
    /\ (outcome.kind = "generateAttestation" /\ outcome.status = "threw") =>
           outcome.error = "provider" /\ outcome.note.requested = <<>>
    /\ (GeneratedAttestation /\ outcome.note.failedStep # "none") =>
           /\ ~outcome.value.isCompliant
           /\ ProofsPresent(outcome.value)
                  = StepsBefore(outcome.note.failedStep)

\* C7 witness: the risk validation failed and the age proof is in the
\* returned attestation.
C7_Witness ==
    /\ GeneratedAttestation
    /\ outcome.note.failedStep = "risk"
    /\ IsDef(outcome.value.proofs.age)

\* the results checkCompliance calls in flight have returned
ReturnedChecks ==
    {Val(checks[i].result) : i \in {j \in 1..Len(checks) :
                                       checks[j].stage = "done"}}

\* C8: a ComplianceCheckResult whose riskScore is 10 has isCompliant = false,
\* for every configured threshold and every sequence of provider responses.
C8_RiskTenNeverCompliant ==
    \A r \in ReturnedChecks : r.riskScore = 10 => ~r.isCompliant

\* an evidence entry at distance 0 whose category contains a sanction keyword
HasDirectSanctionEvidence(response) ==
    \E j \in 1..Len(response.maliciousAddressesFound) :
        LET m == response.maliciousAddressesFound[j]
        IN  /\ m.distance = 0
            /\ IsDef(m.category)
            /\ \E k \in 1..Len(SANCTION_CATEGORIES) :
                  Includes(ToLowerCase(Val(m.category)),
                           SANCTION_CATEGORIES[k])

\* C9: in a result of checkCompliance, isCompliant = (riskScore <= threshold
\* and not isSanctioned) with the gateway's configured threshold, and
\* isSanctioned = (some evidence at distance 0 with a sanction category, or
\* riskScore = 10); evidence at distance > 0 alone, with riskScore < 10, does
\* not mark the address sanctioned.
C9_VerdictFormula ==
    \A r \in ReturnedChecks :
        /\ r.isCompliant <=>
              (r.riskScore <= RangeMaxRiskThreshold /\ ~r.isSanctioned)
        /\ r.isSanctioned <=>
              (HasDirectSanctionEvidence(r.rawResponse) \/ r.riskScore = 10)

BatchReturned ==
    outcome.kind = "batchCheckCompliance" /\ outcome.status = "returned"

\* C10: the map batchCheckCompliance returns has exactly one entry per
\* distinct input address, and the entry of an address is the verdict of a
\* check of that address, made from the provider's response for it, whatever
\* the order in which the checks of a window complete and wherever the
\* address stands in the input.
C10_BatchResultsBelongToTheirAddress ==
    /\ op.kind = "batchCheckCompliance" =>
           \A a \in DOMAIN op.results : op.results[a].subject = a
    /\ BatchReturned =>
           /\ DOMAIN outcome.value
                 = {outcome.note.addresses[k] :
                       k \in 1..Len(outcome.note.addresses)}
           /\ \A a \in DOMAIN outcome.value :
                 /\ outcome.value[a].subject = a
                 /\ Some(outcome.value[a].rawResponse)
                       \in GetAddressRiskScore(a)

\* C10 witness: a map returned for a list longer than one window, with a
\* repeated address, after a check completed before one made earlier.
C10_Witness ==
    /\ BatchReturned
    /\ outcome.note.overtaken
    /\ Len(outcome.note.addresses) > BATCH_CONCURRENCY
    /\ Cardinality(DOMAIN outcome.value) < Len(outcome.note.addresses)

\* the checks of the current window that have not settled yet
ChecksInFlight ==
    {k \in 1..Len(checks) : checks[k].stage \in {"riskData", "sanctions"}}

FailedStepValidation(o) ==
    CASE o.note.failedStep = "age" -> ValidateAgeInput(AgeInputOf(o))
      [] o.note.failedStep = "risk" -> ValidateRiskInput(RiskInputOf(o))
      [] OTHER -> ValidateSelectiveDisclosureInput(DisclosureInputOf(o))

\* a proof with a payload, a placeholder being marked as one
UsableProof(p) ==
    /\ IsDef(p)
    /\ Len(Val(p).proof) > 0
    /\ Val(p).isRealProof \in BOOLEAN

\* C12: a proof request that passed validation always yields a proof: when
\* the real backend is tried and fails, a placeholder with isRealProof =
\* false and a non-empty payload is returned, so a step of generateAttestation
\* fails only when its validation failed and a backend error alone never
\* makes an attestation non-compliant.
C12_ProofGenerationNeverFails ==
    /\ (op.kind = "generateAttestation" /\ op.pc = "riskProof") =>
           UsableProof(op.ageProof)
    /\ (op.kind = "generateAttestation"
        /\ op.pc = "selectiveDisclosureProof") =>
           UsableProof(op.ageProof) /\ UsableProof(op.riskProof)
    /\ GeneratedAttestation =>
           /\ outcome.note.failedStep # "none" =>
                  IsDef(FailedStepValidation(outcome))
           /\ \A k \in ProofsPresent(outcome.value) :
                  UsableProof(outcome.value.proofs[k])

\* C12 witness: with the real backend in use, a compliant attestation whose
\* selective-disclosure proof is the placeholder the service fell back to.
C12_Witness ==
    /\ noirInitialized
    /\ GeneratedAttestation
    /\ outcome.value.isCompliant
    /\ ~Val(outcome.value.proofs.selectiveDisclosure).isRealProof
    /\ Val(outcome.value.proofs.age).isRealProof

\* a verifyProof call made by verifyAttestation has returned
VerifiedProof == VerifiedAttestation /\ outcome.note.verifierCalls = 1

\* the proof that call was given, its result, and the structural check
VerifiedProofOf(o) == Val(o.note.attestation.proofs.selectiveDisclosure)
VerificationOf(o) == Val(o.note.verification)
PayloadNonEmpty(proof) == Len(proof.proof) > 0

\* C13 (as stated): for a proof with isRealProof = true every backend error
\* (artifact unavailable, verifier construction or verifier call throwing)
\* makes verifyProof answer with the structural check 'payload is non-empty';
\* for isRealProof = false the answer is exactly that check.
C13_BackendErrorFallsBackToStructural ==
    VerifiedProof =>
        /\ ~VerifiedProofOf(outcome).isRealProof =>
               outcome.value = PayloadNonEmpty(VerifiedProofOf(outcome))
        /\ (/\ VerifiedProofOf(outcome).isRealProof
            /\ VerificationOf(outcome).path \in {"unavailable", "threw"}) =>
               outcome.value = PayloadNonEmpty(VerifiedProofOf(outcome))

\* C13 (amended): for a proof with isRealProof = true, verifyProof answers
\* with the structural check when the circuit artifact or the backend
\* library is unavailable, and with isValid = false and an error message,
\* without throwing, when constructing or calling the verifier throws; for
\* isRealProof = false the answer is exactly the structural check.
C13_UnavailableStructuralThrownInvalid ==
    VerifiedProof =>
        LET proof == VerifiedProofOf(outcome)
            v == VerificationOf(outcome)
        IN  /\ outcome.value = v.isValid
            /\ ~proof.isRealProof <=> v.path = "mock"
            /\ v.path \in {"mock", "unavailable"} =>
                   v.isValid = PayloadNonEmpty(proof) /\ ~IsDef(v.error)
            /\ v.path = "threw" => ~v.isValid /\ IsDef(v.error)
            /\ v.path \in {"mock", "unavailable", "threw", "backend"}

\* C13 witness: the verifier threw on a real proof with a payload and the
\* verification came back invalid.
C13_Witness ==
    /\ VerifiedProof
    /\ VerifiedProofOf(outcome).isRealProof
    /\ PayloadNonEmpty(VerifiedProofOf(outcome))
    /\ VerificationOf(outcome).path = "threw"
    /\ outcome.value = FALSE

\* x is a number within [lo, hi]
Within(x, lo, hi) == x # NaN /\ lo <= x /\ x <= hi

AgePredicate(age, minimumAge) ==
    /\ Within(age, 0, 255)
    /\ Within(minimumAge, 0, 255)
    /\ age >= minimumAge

RiskPredicate(riskScore, maxRiskScore) ==
    /\ Within(riskScore, 1, 10)
    /\ Within(maxRiskScore, 1, 10)
    /\ riskScore <= maxRiskScore

DisclosurePredicate(i) ==
    /\ AgePredicate(i.age, i.minimumAge)
    /\ RiskPredicate(i.riskScore, i.maxRiskScore)
    /\ ~i.isSanctioned
    /\ i.walletBalanceUsd # NaN /\ i.minBalanceUsd # NaN
    /\ i.walletBalanceUsd >= i.minBalanceUsd

\* the public inputs of a returned proof are the given values, in order
\* (a placeholder carries them as their decimal strings)
PublicInputsAre(proof, values) ==
    /\ Len(proof.publicInputs) = Len(values)
    /\ ~proof.isRealProof =>
           proof.publicInputs = [k \in 1..Len(values) |->
                                    NumToString(values[k])]

\* C14: generateSelectiveDisclosureProof succeeds exactly when 0 <= age <=
\* 255, 0 <= minimumAge <= 255, age >= minimumAge, 1 <= riskScore <= 10,
\* 1 <= maxRiskScore <= 10, riskScore <= maxRiskScore, isSanctioned is false
\* and walletBalanceUsd >= minBalanceUsd; on success the public inputs are
\* minimumAge, maxRiskScore, minBalanceUsd in that order, otherwise a
\* validation error is raised and there is no proof.  The age and risk
\* generators apply the corresponding sub-predicates, with public inputs
\* minimumAge and maxAllowedRisk.
C14_ProofSucceedsIffInputsValid ==
    LET i == outcome.note.input
    IN  /\ outcome.kind = "generateSelectiveDisclosureProof" =>
              /\ outcome.status = "returned" <=> DisclosurePredicate(i)
              /\ outcome.status = "returned" =>
                     PublicInputsAre(outcome.value,
                         <<i.minimumAge, i.maxRiskScore, i.minBalanceUsd>>)
        /\ outcome.kind = "generateAgeProof" =>
              /\ outcome.status = "returned" <=>
                     AgePredicate(i.age, i.minimumAge)
              /\ outcome.status = "returned" =>
                     PublicInputsAre(outcome.value, <<i.minimumAge>>)
        /\ outcome.kind = "generateRiskProof" =>
              /\ outcome.status = "returned" <=>
                     RiskPredicate(i.riskScore, i.maxAllowedRisk)
              /\ outcome.status = "returned" =>
                     PublicInputsAre(outcome.value, <<i.maxAllowedRisk>>)

\* a list of fragments has been returned for a total of at least 0.1
SplitReturned ==
    /\ outcome.kind \in {"splitAmount", "splitAmountDeterministic"}
    /\ outcome.status = "returned"
    /\ outcome.note.total * 10 >= AmountUnits

\* C15: for a total of at least 0.1 and every fragment count and draw, the
\* returned fragments sum to the total within 1e-4, and the residual is
\* absorbed by the last fragment alone: the others are returned as drawn.
C15_SumConserved ==
    SplitReturned =>
        LET diff == SumSeq(outcome.value) - outcome.note.total
        IN  /\ Len(outcome.value) = outcome.note.splitCount
            /\ diff * 10000 < AmountUnits
            /\ (0 - diff) * 10000 < AmountUnits
            /\ \A k \in 1..(Len(outcome.value) - 1) :
                  outcome.value[k] = outcome.note.splits[k]

\* C15 witness: a split of a total with a fifth decimal, whose last fragment
\* had to be rounded, so that the sum differs from the total.
C15_Witness ==
    /\ SplitReturned
    /\ Len(outcome.value) >= 3
    /\ SumSeq(outcome.value) # outcome.note.total

\* C16: every returned fragment is strictly positive, the last one included
\* after it has absorbed the residual.
C16_FragmentsPositive ==
    SplitReturned => \A k \in 1..Len(outcome.value) : outcome.value[k] > 0

DerivedPair ==
    /\ outcome.kind \in {"deriveKeypair", "deriveAddress"}
    /\ outcome.status = "returned"

\* C20: derivation is a function of (seed, index): two derivations for the
\* same seed and index are equal, two for the same seed and different
\* indices differ in key material and in address, and deriveAddress returns
\* the public key of the keypair deriveKeypair derives.
C20_DerivationPureAndInjective ==
    DerivedPair =>
        LET i == outcome.note.indices[1]
            j == outcome.note.indices[2]
        IN  /\ i = j => outcome.value[1] = outcome.value[2]
            /\ i # j =>
                  /\ outcome.value[1] # outcome.value[2]
                  /\ outcome.note.keypairs[1].secretKey
                        # outcome.note.keypairs[2].secretKey
            /\ outcome.kind = "deriveAddress" =>
                  \A k \in 1..2 :
                      outcome.value[k]
                          = ToBase58(outcome.note.keypairs[k].publicKey)


ScoreFields == {"splitCount", "uniqueAddresses", "minAgingHours", "poolSize"}

\* c is d with one input raised and the other three held
RaisedInOneInput(d, c) ==
    \E f \in ScoreFields :
        /\ c[f] > d[f]
        /\ \A g \in ScoreFields \ {f} : c[g] = d[g]

\* C19: raising one of splitCount, uniqueAddresses, minAgingHours and
\* poolSize while the other three are held never lowers the privacy score.
C19_ScoreMonotone ==
    (outcome.kind = "calculatePrivacyScore" /\ outcome.status = "returned") =>
        \A c \in ScoreConfigs :
            RaisedInOneInput(outcome.note.config, c)
                => CalculatePrivacyScore(c) >= outcome.value


\* every record of the list is scheduled at least minAgingMs after t0
AgedFrom(records, t0) ==
    \A k \in 1..Len(records) : records[k].scheduledTime >= t0 + minAgingMs

\* C17: every withdrawal the scheduler produces, in scheduleWithdrawals and
\* in the demo scheduling of executePrivateWithdraw, is scheduled no earlier
\* than 24 hours after the time the scheduler read, for every delay and
\* jitter drawn.
C17_MinimumAging ==
    /\ (op.kind \in {"scheduleWithdrawals", "executePrivateWithdraw"}
          /\ op.pc \in {"map", "demoSchedule"})
          => AgedFrom(op.records, op.now)
    /\ (outcome.kind = "scheduleWithdrawals" /\ outcome.status = "returned")
          => AgedFrom(outcome.value, outcome.note.now)

StatusStep(before, after) ==
    \/ after.status = before.status
    \/ /\ before.status = "pending" /\ after.status = "ready"
       /\ before.scheduledTime <= now'
    \/ before.status = "ready" /\ after.status = "executed"

\* C18: in every step, a record that enters scheduledWithdrawals enters as
\* pending, and a record already there keeps its status or moves
\* pending -> ready (once its scheduledTime has come) or ready -> executed.
C18_StatusLifecycle ==
    [][\A k \in 1..Len(scheduledWithdrawals') :
          IF k <= Len(scheduledWithdrawals)
          THEN StatusStep(scheduledWithdrawals[k], scheduledWithdrawals'[k])
          ELSE scheduledWithdrawals'[k].status = "pending"]_vars


\* C21: a derivation for a seed that is not exactly 32 bytes long fails with
\* InvalidSeedLength, and no key material is produced for it.
C21_InvalidSeedLengthRejected ==
    /\ (op.kind \in {"deriveKeypair", "deriveAddress"} /\ Len(op.seed) # 32)
          => Len(op.keypairs) = 0
    /\ (outcome.kind \in {"deriveKeypair", "deriveAddress"}
          /\ Len(outcome.note.seed) # 32)
          => /\ outcome.status = "threw"
             /\ outcome.error = "InvalidSeedLength"


\* C22: deserializeProof(serializeProof(p)) has the public inputs of p in
\* the same order, the payload bytes of p (and so its length), and the
\* isRealProof flag of p.
C22_SerializationRoundTrips ==
    (outcome.kind = "deserializeProof" /\ outcome.status = "returned") =>
        /\ outcome.value.publicInputs = outcome.note.original.publicInputs
        /\ outcome.value.proof = outcome.note.original.proof
        /\ Len(outcome.value.proof) = Len(outcome.note.original.proof)
        /\ outcome.value.isRealProof = outcome.note.original.isRealProof

\* a real proof with a full payload whose public inputs hold a quote and a
\* backslash has been serialized and read back
C22_Witness ==
    /\ outcome.kind = "deserializeProof" /\ outcome.status = "returned"
    /\ outcome.note.original.isRealProof
    /\ Len(outcome.note.original.proof) = MaxPayload
    /\ \E k \in 1..Len(outcome.value.publicInputs) :
          Quote \in {outcome.value.publicInputs[k][j]
                        : j \in 1..Len(outcome.value.publicInputs[k])}
    /\ Backslash \in {outcome.note.serialized[j]
                         : j \in 1..Len(outcome.note.serialized)}


AttestationStages ==
    <<"checkCompliance", "ageProof", "riskProof", "selectiveDisclosureProof">>
StageOf(o) == CHOOSE k \in 1..4 : AttestationStages[k] = o.pc
ProofSteps == <<"age", "risk", "selectiveDisclosure">>

InAttestation == op.kind = "generateAttestation"
InProofStage == InAttestation /\ op.pc # "checkCompliance"

\* how a generateAttestation call in stage k ends: without a verdict it
\* throws; with one it returns, having requested the first k - 1 proofs in
\* order, compliant after the third proof and otherwise non-compliant with
\* the last proof requested as the step that failed
AttestationEnds(k) ==
    IF k = 1
    THEN outcome'.status = "threw"
    ELSE /\ outcome'.status = "returned"
         /\ outcome'.note.requested = SubSeq(ProofSteps, 1, k - 1)
         /\ outcome'.value.isCompliant \in BOOLEAN
         /\ outcome'.value.isCompliant => k = 4
         /\ ~outcome'.value.isCompliant
               => outcome'.note.failedStep = ProofSteps[k - 1]

\* C23: an attestation request starts by asking for the risk verdict; the
\* age, risk and selective disclosure proofs are requested in that order,
\* each with the verdict and the proofs before it in hand; a failed step
\* ends the request with no further proof requested; and a request that
\* has its verdict ends, returning a compliant or a non-compliant attestation.
C23_AttestationLifecycle ==
    /\ [](InAttestation =>
            /\ IsDef(op.complianceCheck) <=> op.pc # "checkCompliance"
            /\ IsDef(op.ageProof)
                  <=> op.pc \in {"riskProof", "selectiveDisclosureProof"}
            /\ IsDef(op.riskProof) <=> op.pc = "selectiveDisclosureProof")
    /\ [][/\ (~InAttestation /\ op'.kind = "generateAttestation")
                => op'.pc = "checkCompliance"
          /\ (InAttestation /\ op' # op) =>
                IF op'.kind = "generateAttestation"
                THEN /\ StageOf(op') = StageOf(op) + 1
                     /\ op'.request = op.request
                ELSE /\ op' = Idle
                     /\ outcome'.kind = "generateAttestation"
                     /\ AttestationEnds(StageOf(op))]_vars
    /\ (InProofStage
          ~> (outcome.kind = "generateAttestation"
                /\ outcome.status = "returned"
                /\ outcome.value.isCompliant \in BOOLEAN))

\* a request with a verdict has ended non-compliant at the risk proof, the
\* age proof in hand and the selective disclosure proof never requested
C23_Witness ==
    /\ outcome.kind = "generateAttestation" /\ outcome.status = "returned"
    /\ outcome.note.requested = <<"age", "risk">>
    /\ ~outcome.value.isCompliant
    /\ IsDef(outcome.value.proofs.age)


\* C24: the circuit cache is written at most once for each circuit type,
\* under every interleaving of the loadCircuit calls of concurrent
\* generateProof and verifyProof calls on the service.
C24_CircuitCacheWrittenOnce ==
    \A c \in CircuitTypes : circuitCache[c].writes <= 1

\* C25: for each circuit type the service constructs at most one backend,
\* over every sequence and interleaving of generateProof and verifyProof
\* calls; a call that finds a backend in the cache constructs none.
C25_BackendConstructedOnce ==
    /\ \A c \in CircuitTypes : backendCache[c].constructed <= 1
    /\ [][\A c \in CircuitTypes :
             IsDef(backendCache[c].backend)
                => backendCache'[c] = backendCache[c]]_vars

\* a generateProof call and a verifyProof call for one circuit type have
\* both gone through the backend, which was constructed once
C25_Witness ==
    /\ op.kind = "noirCalls"
    /\ \E i, j \in 1..Len(op.calls) :
          /\ op.calls[i].fn = "generateProof" /\ op.calls[i].pc = "done"
          /\ op.calls[j].fn = "verifyProof" /\ op.calls[j].pc = "done"
          /\ op.calls[i].circuitType = op.calls[j].circuitType
          /\ IsDef(op.calls[i].circuit) /\ IsDef(op.calls[j].circuit)
          /\ backendCache[op.calls[i].circuitType].constructed = 1


\* the step that raises the validation error of a proof request of
\* generateAttestation: the proof step whose input the validator rejects
RaisesValidationError ==
    /\ op.kind = "generateAttestation"
    /\ op.pc # "checkCompliance"
    /\ outcome'.kind = "generateAttestation"
    /\ outcome'.status = "returned"
    /\ outcome'.note.failedStep # "none"
    /\ IsDef(FailedStepValidation(outcome'))

\* C26: a validation error of a proof request is raised before any external
\* call is made for the request: when a proof step of generateAttestation
\* rejects its input, the risk provider has not been contacted for the
\* request (no provider verdict is held by the call).
C26_ValidationBeforeExternalCalls ==
    [][RaisesValidationError => ~IsDef(op.complianceCheck)]_vars


\* the choice generateProof makes when it is called: the real proving
\* backend is tried (true) or the placeholder is built (false)
UsesRealBackend == NoirUseRealProofs /\ noirInitialized

\* C27: the real-vs-placeholder choice of a service instance is decided once
\* at construction: the choice generateProof makes is the same at every
\* moment of the instance's lifetime, whatever initialize() calls are made
\* later on this or any other instance.
C27_BackendChoiceFixedAtConstruction ==
    [][UsesRealBackend' = UsesRealBackend]_vars


\* C28: in every attestation returned by generateAttestation the proof set
\* is prefix-closed in the order age, risk, selective disclosure: a risk
\* proof is present only with an age proof, a selective-disclosure proof
\* only with a risk proof, and the selective-disclosure proof is present
\* exactly when isCompliant = true.
C28_ProofSetPrefixClosed ==
    GeneratedAttestation =>
        LET proofs == outcome.value.proofs
        IN  /\ IsDef(proofs.risk) => IsDef(proofs.age)
            /\ IsDef(proofs.selectiveDisclosure) => IsDef(proofs.risk)
            /\ IsDef(proofs.selectiveDisclosure) <=> outcome.value.isCompliant

\* C28 witness: a returned attestation that stopped at the last step, with
\* the age and risk proofs and without the selective-disclosure proof.
C28_Witness ==
    /\ GeneratedAttestation
    /\ ~outcome.value.isCompliant
    /\ IsDef(outcome.value.proofs.age)
    /\ IsDef(outcome.value.proofs.risk)
    /\ ~IsDef(outcome.value.proofs.selectiveDisclosure)


\* C29: the attestation verdict never contradicts the embedded gateway
\* verdict: every attestation returned with isCompliant = true carries a
\* complianceCheck with isCompliant = true and isSanctioned = false, for
\* every request-level maxRiskScore, service-level maxRiskThreshold and
\* gateway threshold (the mock gateway included).
C29_VerdictAgreesWithGateway ==
    (GeneratedAttestation /\ outcome.value.isCompliant) =>
        /\ outcome.value.complianceCheck.isCompliant
        /\ ~outcome.value.complianceCheck.isSanctioned


\* the handler has answered
VerifyRouteAnswered ==
    outcome.kind = VerifyRoute /\ outcome.status = "returned"

\* the request is one the handler verifies: the three fields are there and
\* circuitType names a circuit
VerifiableRequest(body) ==
    /\ IsDef(body.circuitType) /\ Val(body.circuitType) \in CircuitTypes
    /\ IsDef(body.proof)
    /\ IsDef(body.publicInputs)

\* C30: the POST /api/proof/verify handler treats every submitted proof as
\* a placeholder: for any valid circuitType and any publicInputs the
\* reported isValid is "the submitted proof byte array is non-empty", so it
\* depends on neither circuitType nor publicInputs; an isValid is reported
\* only for such requests.
C30_VerifyRouteChecksPayloadOnly ==
    VerifyRouteAnswered =>
        LET body == outcome.note.body
            response == outcome.value
        IN  /\ response.status = 200 => VerifiableRequest(body)
            /\ response.status = 200 =>
                  /\ response.body.data.isValid = (Len(Val(body.proof)) > 0)
                  /\ ~IsDef(response.body.data.error)

\* C30 witness: with the libraries initialized, a proof of two bytes
\* submitted for selective_disclosure with no public inputs is reported
\* valid.
C30_Witness ==
    /\ VerifyRouteAnswered
    /\ noirInitialized
    /\ outcome.value.status = 200
    /\ outcome.value.body.data.isValid
    /\ outcome.note.body.circuitType = Some("selective_disclosure")
    /\ outcome.note.body.publicInputs = Some(<<>>)
    /\ Len(Val(outcome.note.body.proof)) = 2

====
